---- MODULE Spec2Model ----
(***************************************************************************)
(* ComStudio: telemetry ingest and visualisation pipeline.                 *)
(*                                                                         *)
(*   DataBuffer    bounded packet history            (DataBuffer.cpp)      *)
(*   PlotterWidget render tick with LTTB / Min-Max   (PlotterWidget.cpp)   *)
(*   LineParser    framing, field parsing, dual-rate (LineParser.cpp)      *)
(*                                                                         *)
(* Text is a sequence of one-character strings; a double is an integer.    *)
(***************************************************************************)
EXTENDS Integers, Sequences, FiniteSets, TLC

VARIABLES
    \* ---- DataBuffer
    m_packets,          \* std::deque<GenericDataPacket>, front = index 1
    m_maxSize,          \* int
    m_channelNames,     \* QStringList, first-seen order
    m_maxChannelCount,  \* int
    bufSignals,         \* signals emitted by the last DataBuffer call, in order
    inserted,           \* packetIndex of every packet added since construction,
                        \* clear() or setMaxSize(), in insertion order
    addCount,           \* number of addPacket calls so far
    \* ---- PlotterWidget
    m_channelData,      \* QMap<int, ChannelData>: channel index -> [t, v]
    m_pendingData,      \* QVector<PendingData>: [timestamp, values]
    m_maxDataPoints,    \* int
    m_downsampleMode,   \* "LTTB" | "MinMax"
    m_startTime,        \* qint64, 0 = not set
    m_needsReplot,      \* bool
    m_paused,           \* bool
    graph,              \* channel index -> what the last setData() was given:
                        \* [t, v], with src = the series it was computed from,
                        \* idx = the 0-based source index of every point and
                        \* mode = the algorithm selected at that tick
    wallClock,          \* QDateTime::currentMSecsSinceEpoch()
    sampleCount,        \* number of addData calls so far
    \* ---- LineParser
    m_config,           \* ParserConfig
    m_buffer,           \* QByteArray, accumulation buffer
    m_packetCounter,    \* quint64
    m_lastEmitTimestamp,\* qint64, 0 = no display emission yet
    m_targetDisplayRate,\* int, Hz; m_targetIntervalMs = 1000.0 / hz, or 0
    m_rateLimitEnabled, \* bool
    now,                \* m_elapsedTimer.elapsed(), ms since construction
    log,                \* since the last reset, in order: every processLine
                        \* call with what it emitted, and every framing error
    stream,             \* every byte given to parse() since the last reset
    bufBase,            \* offset in `stream` of the first byte of m_buffer
    lastParse,          \* the last parse() call: buffer size before the
                        \* overflow test, and whether the test fired
    fed,                \* bytes given to parse() so far
    calls,              \* parse() calls so far
    ticks,              \* clock steps so far
    \* ---- LineParser::testParse (static)
    testResult,         \* ParseResult returned by the last testParse call
    testConfig,         \* the configuration that call was given
    \* ---- DataBuffer under threads
    m_lock,             \* QReadWriteLock: [writer: held for writing,
                        \* readers: number of read locks held]
    writer,             \* the writing thread: [pc, packet, size], its place
                        \* in addPacket, setMaxSize or clear
    \* ---- LineParser::parse, pass by pass
    parsing             \* [running: a parse() call has not returned,
                        \* passes: passes of its while loop so far,
                        \* entry: size of m_buffer when the loop began]

bufVars == <<m_packets, m_maxSize, m_channelNames, m_maxChannelCount,
             bufSignals, inserted, addCount>>

plotVars == <<m_channelData, m_pendingData, m_maxDataPoints, m_downsampleMode,
              m_startTime, m_needsReplot, m_paused, graph, wallClock, sampleCount>>

parserVars == <<m_config, m_buffer, m_packetCounter, m_lastEmitTimestamp,
                m_targetDisplayRate, m_rateLimitEnabled, now, log, stream,
                bufBase, lastParse, fed, calls, ticks>>

testVars == <<testResult, testConfig>>

lockVars == <<m_lock, writer>>

loopVars == <<parsing>>

vars == <<bufVars, plotVars, parserVars, testVars, lockVars, loopVars>>

\* ------------------------------------------------------------------ helpers

Max(a, b) == IF a >= b THEN a ELSE b
Min(a, b) == IF a <= b THEN a ELSE b

Last(s) == s[Len(s)]

Contains(s, x) == \E i \in 1..Len(s) : s[i] = x

\* QList::indexOf, 0-based, -1 when absent
IndexOf(s, x) ==
    IF Contains(s, x)
    THEN (CHOOSE i \in 1..Len(s) : s[i] = x /\ \A j \in 1..(i - 1) : s[j] # x) - 1
    ELSE -1

\* ------------------------------------------------------------------ bounds

MaxCapacity == 3
MaxAdds     == 5

\* =========================================================================
\* DataBuffer
\* =========================================================================

\* QMap<QString, double> iterates its keys in sorted order
ChannelOrder == <<"Ch0", "Ch1", "Ch2", "X", "Y">>

SortedKeys(channels) ==
    SelectSeq(ChannelOrder, LAMBDA n : n \in DOMAIN channels)

\* capacities given to the constructor and to setMaxSize
Capacities == 0..MaxCapacity

\* packets handed to addPacket directly: a few channel layouts
PacketShapes == { <<>>, <<"Ch0">>, <<"Ch0", "Ch1">>, <<"X">> }

MkPacket(idx, names) ==
    [ packetIndex |-> idx,
      channels    |-> [n \in {names[i] : i \in 1..Len(names)} |-> idx],
      values      |-> [i \in 1..Len(names) |-> idx],
      isValid     |-> Len(names) > 0 ]

\* while (size() > m_maxSize + 1) pop_front();   -- evicts one too late
TrimFrontLate(q, cap) ==
    IF Len(q) > cap + 1 THEN SubSeq(q, Len(q) - cap, Len(q)) ELSE q

\* while (size() > m_maxSize) pop_front();   (m_maxSize >= 0)
TrimFront(q, cap) ==
    IF Len(q) > cap THEN SubSeq(q, Len(q) - cap + 1, Len(q)) ELSE q

RECURSIVE TrackNames(_, _)
TrackNames(names, keys) ==
    IF keys = <<>> THEN names
    ELSE TrackNames(IF Contains(names, Head(keys)) THEN names
                    ELSE Append(names, Head(keys)),
                    Tail(keys))

\* second loop of addPacket: channelAdded for the key that is last in the list
ChannelAddedSignals(names, keys) ==
    LET hit == SelectSeq(keys, LAMBDA k : IndexOf(names, k) = Len(names) - 1)
    IN  [i \in 1..Len(hit) |-> [sig |-> "channelAdded", name |-> hit[i]]]

InitBuffer ==
    /\ m_packets = <<>>
    /\ m_maxSize = MaxCapacity
    /\ m_channelNames = <<>>
    /\ m_maxChannelCount = 0
    /\ bufSignals = <<>>
    /\ inserted = <<>>
    /\ addCount = 0

DoAddPacket(packet) ==
    LET keys  == SortedKeys(packet.channels)
        names == TrackNames(m_channelNames, keys)
    IN  /\ m_packets' = TrimFront(Append(m_packets, packet), m_maxSize)
        /\ m_channelNames' = names
        /\ m_maxChannelCount' = Max(m_maxChannelCount, Len(packet.values))
        /\ bufSignals' = <<[sig |-> "dataUpdated", name |-> ""]>>
                            \o ChannelAddedSignals(names, keys)
        /\ inserted' = Append(inserted, packet.packetIndex)
        /\ addCount' = addCount + 1
        /\ UNCHANGED m_maxSize

AddPacket ==
    /\ addCount < MaxAdds
    /\ \E shape \in PacketShapes : DoAddPacket(MkPacket(addCount, shape))
    /\ UNCHANGED <<plotVars, parserVars, testVars, lockVars, loopVars>>

SetMaxSize ==
    \E size \in Capacities :
        /\ m_maxSize' = size
        /\ m_packets' = TrimFront(m_packets, size)
        /\ inserted' = <<>>
        /\ bufSignals' = <<>>
        /\ UNCHANGED <<m_channelNames, m_maxChannelCount, addCount>>
        /\ UNCHANGED <<plotVars, parserVars, testVars, lockVars, loopVars>>

Clear ==
    /\ m_packets' = <<>>
    /\ m_channelNames' = <<>>
    /\ m_maxChannelCount' = 0
    /\ inserted' = <<>>
    /\ bufSignals' = <<[sig |-> "cleared", name |-> ""]>>
    /\ UNCHANGED <<m_maxSize, addCount>>
    /\ UNCHANGED <<plotVars, parserVars, testVars, lockVars, loopVars>>

NextBuffer == AddPacket \/ SetMaxSize \/ Clear

\* ---- DataBuffer under threads: one writing thread steps through addPacket,
\* setMaxSize and clear statement by statement while reading threads hold
\* read locks

MaxWrites  == 3
MaxReaders == 2

\* packets the writing thread adds
ThreadShapes == { <<"Ch0">>, <<"Ch0", "Ch1">> }

IdleWriter == [pc |-> "idle", packet |-> MkPacket(0, <<>>), size |-> 0]

InitLock ==
    /\ m_lock = [writer |-> FALSE, readers |-> 0]
    /\ writer = IdleWriter

\* QWriteLocker: granted when nobody holds the lock
CanWrite(lock) == ~lock.writer /\ lock.readers = 0

\* accessors that read the members without taking the lock
CanReadUnlocked(lock) == TRUE

\* QReadLocker: granted when no writer holds the lock
CanRead(lock) == ~lock.writer

\* the writer moves to pc and nothing of the store changes
WriterGoes(pc) ==
    /\ writer' = [writer EXCEPT !.pc = pc]
    /\ UNCHANGED <<bufVars, plotVars, parserVars, testVars, loopVars>>

\* addPacket: QWriteLocker locker(&m_lock)
BeginAddPacket ==
    \E shape \in ThreadShapes :
        /\ writer.pc = "idle"
        /\ addCount < MaxWrites
        /\ CanWrite(m_lock)
        /\ m_lock' = [m_lock EXCEPT !.writer = TRUE]
        /\ writer' = [pc |-> "push", packet |-> MkPacket(addCount, shape),
                      size |-> 0]
        /\ UNCHANGED <<bufVars, plotVars, parserVars, testVars, loopVars>>

\* m_packets.push_back(packet)
PushBack ==
    /\ writer.pc = "push"
    /\ m_packets' = Append(m_packets, writer.packet)
    /\ writer' = [writer EXCEPT !.pc = "trim"]
    /\ UNCHANGED <<m_maxSize, m_channelNames, m_maxChannelCount, bufSignals,
                   inserted, addCount, m_lock>>
    /\ UNCHANGED <<plotVars, parserVars, testVars, loopVars>>

\* pop_front() on an empty std::deque is undefined: the build may abort the
\* process there (a checked library), or run on with the deque corrupt, and
\* what it does from then on is anybody's guess
Undefined == {"aborted", "corrupt"}

PopFrontOfEmpty ==
    /\ \E outcome \in Undefined : writer' = [writer EXCEPT !.pc = outcome]
    /\ UNCHANGED m_packets

\* one test of "while (size() > m_maxSize)" in addPacket, and its pop_front
TrimStep ==
    /\ writer.pc = "trim"
    /\ IF Len(m_packets) > m_maxSize
       THEN IF m_packets = <<>>
            THEN PopFrontOfEmpty
            ELSE /\ m_packets' = Tail(m_packets)
                 /\ UNCHANGED writer
       ELSE /\ writer' = [writer EXCEPT !.pc = "names"]
            /\ UNCHANGED m_packets
    /\ UNCHANGED <<m_maxSize, m_channelNames, m_maxChannelCount, bufSignals,
                   inserted, addCount, m_lock>>
    /\ UNCHANGED <<plotVars, parserVars, testVars, loopVars>>

\* the "Track channel names" loop
TrackStep ==
    /\ writer.pc = "names"
    /\ m_channelNames' = TrackNames(m_channelNames,
                                    SortedKeys(writer.packet.channels))
    /\ writer' = [writer EXCEPT !.pc = "count"]
    /\ UNCHANGED <<m_packets, m_maxSize, m_maxChannelCount, bufSignals,
                   inserted, addCount, m_lock>>
    /\ UNCHANGED <<plotVars, parserVars, testVars, loopVars>>

\* "Track max channel count"
CountStep ==
    /\ writer.pc = "count"
    /\ m_maxChannelCount' = Max(m_maxChannelCount, Len(writer.packet.values))
    /\ writer' = [writer EXCEPT !.pc = "unlock"]
    /\ UNCHANGED <<m_packets, m_maxSize, m_channelNames, bufSignals,
                   inserted, addCount, m_lock>>
    /\ UNCHANGED <<plotVars, parserVars, testVars, loopVars>>

\* the end of the locked block of addPacket
UnlockAdd ==
    /\ writer.pc = "unlock"
    /\ m_lock' = [m_lock EXCEPT !.writer = FALSE]
    /\ WriterGoes("emit")

\* emit dataUpdated(packet)
EmitDataUpdated ==
    /\ writer.pc = "emit"
    /\ bufSignals' = <<[sig |-> "dataUpdated", name |-> ""]>>
    /\ writer' = [writer EXCEPT !.pc = "announce"]
    /\ UNCHANGED <<m_packets, m_maxSize, m_channelNames, m_maxChannelCount,
                   inserted, addCount, m_lock>>
    /\ UNCHANGED <<plotVars, parserVars, testVars, loopVars>>

\* the channelAdded loop: each key is looked up under a read lock of the
\* writing thread, released before the emit; no other thread writes
Announce ==
    /\ writer.pc = "announce"
    /\ bufSignals' = bufSignals
                        \o ChannelAddedSignals(m_channelNames,
                                               SortedKeys(writer.packet.channels))
    /\ inserted' = Append(inserted, writer.packet.packetIndex)
    /\ addCount' = addCount + 1
    /\ writer' = IdleWriter
    /\ UNCHANGED <<m_packets, m_maxSize, m_channelNames, m_maxChannelCount,
                   m_lock>>
    /\ UNCHANGED <<plotVars, parserVars, testVars, loopVars>>

\* setMaxSize: QWriteLocker locker(&m_lock)
BeginSetMaxSize ==
    \E size \in Capacities :
        /\ writer.pc = "idle"
        /\ CanWrite(m_lock)
        /\ m_lock' = [m_lock EXCEPT !.writer = TRUE]
        /\ writer' = [IdleWriter EXCEPT !.pc = "setmax", !.size = size]
        /\ UNCHANGED <<bufVars, plotVars, parserVars, testVars, loopVars>>

\* m_maxSize = size
SetMaxStep ==
    /\ writer.pc = "setmax"
    /\ m_maxSize' = writer.size
    /\ writer' = [writer EXCEPT !.pc = "trimmax"]
    /\ UNCHANGED <<m_packets, m_channelNames, m_maxChannelCount, bufSignals,
                   inserted, addCount, m_lock>>
    /\ UNCHANGED <<plotVars, parserVars, testVars, loopVars>>

\* one test of the trim loop of setMaxSize, and its pop_front; the lock is
\* released when the loop ends
TrimMaxStep ==
    /\ writer.pc = "trimmax"
    /\ IF Len(m_packets) > m_maxSize
       THEN IF m_packets = <<>>
            THEN PopFrontOfEmpty /\ UNCHANGED m_lock
            ELSE /\ m_packets' = Tail(m_packets)
                 /\ UNCHANGED <<writer, m_lock>>
       ELSE /\ writer' = IdleWriter
            /\ m_lock' = [m_lock EXCEPT !.writer = FALSE]
            /\ UNCHANGED m_packets
    /\ UNCHANGED <<m_maxSize, m_channelNames, m_maxChannelCount, bufSignals,
                   inserted, addCount>>
    /\ UNCHANGED <<plotVars, parserVars, testVars, loopVars>>

\* clear: QWriteLocker locker(&m_lock)
BeginClear ==
    /\ writer.pc = "idle"
    /\ CanWrite(m_lock)
    /\ m_lock' = [m_lock EXCEPT !.writer = TRUE]
    /\ WriterGoes("clearPackets")

\* m_packets.clear()
ClearPackets ==
    /\ writer.pc = "clearPackets"
    /\ m_packets' = <<>>
    /\ writer' = [writer EXCEPT !.pc = "clearNames"]
    /\ UNCHANGED <<m_maxSize, m_channelNames, m_maxChannelCount, bufSignals,
                   inserted, addCount, m_lock>>
    /\ UNCHANGED <<plotVars, parserVars, testVars, loopVars>>

\* m_channelNames.clear(); m_maxChannelCount = 0; and the end of the block
ClearNames ==
    /\ writer.pc = "clearNames"
    /\ m_channelNames' = <<>>
    /\ m_maxChannelCount' = 0
    /\ m_lock' = [m_lock EXCEPT !.writer = FALSE]
    /\ writer' = [writer EXCEPT !.pc = "emitCleared"]
    /\ UNCHANGED <<m_packets, m_maxSize, bufSignals, inserted, addCount>>
    /\ UNCHANGED <<plotVars, parserVars, testVars, loopVars>>

\* emit cleared()
EmitCleared ==
    /\ writer.pc = "emitCleared"
    /\ bufSignals' = <<[sig |-> "cleared", name |-> ""]>>
    /\ inserted' = <<>>
    /\ writer' = IdleWriter
    /\ UNCHANGED <<m_packets, m_maxSize, m_channelNames, m_maxChannelCount,
                   addCount, m_lock>>
    /\ UNCHANGED <<plotVars, parserVars, testVars, loopVars>>

\* an accessor (size, packetAt, lastPacket, allPackets, channelData,
\* channelDataByIndex, channelNames, maxChannelCount): QReadLocker locker
AcquireRead ==
    /\ m_lock.readers < MaxReaders
    /\ CanRead(m_lock)
    /\ m_lock' = [m_lock EXCEPT !.readers = m_lock.readers + 1]
    /\ UNCHANGED <<writer, bufVars, plotVars, parserVars, testVars, loopVars>>

\* the accessor returns
ReleaseRead ==
    /\ m_lock.readers > 0
    /\ m_lock' = [m_lock EXCEPT !.readers = m_lock.readers - 1]
    /\ UNCHANGED <<writer, bufVars, plotVars, parserVars, testVars, loopVars>>

\* ---- capacities below zero: setMaxSize takes any int

MinCapacity == 1

AnyCapacities == (-MinCapacity)..MaxCapacity

\* setMaxSize(size) for any int
BeginSetAnySize ==
    \E size \in AnyCapacities :
        /\ writer.pc = "idle"
        /\ CanWrite(m_lock)
        /\ m_lock' = [m_lock EXCEPT !.writer = TRUE]
        /\ writer' = [IdleWriter EXCEPT !.pc = "setmax", !.size = size]
        /\ UNCHANGED <<bufVars, plotVars, parserVars, testVars, loopVars>>

NextTrim ==
    \/ BeginAddPacket \/ PushBack \/ TrimStep \/ TrackStep \/ CountStep
    \/ UnlockAdd \/ EmitDataUpdated \/ Announce
    \/ BeginSetAnySize \/ SetMaxStep \/ TrimMaxStep

NextThreads ==
    \/ BeginAddPacket \/ PushBack \/ TrimStep \/ TrackStep \/ CountStep
    \/ UnlockAdd \/ EmitDataUpdated \/ Announce
    \/ BeginSetMaxSize \/ SetMaxStep \/ TrimMaxStep
    \/ BeginClear \/ ClearPackets \/ ClearNames \/ EmitCleared
    \/ AcquireRead \/ ReleaseRead

\* =========================================================================
\* PlotterWidget: batching, trimming and downsampling on the render tick
\* =========================================================================
\* Times are kept in milliseconds since m_startTime (the code divides by
\* 1000.0; a common scale of the time axis changes no comparison below).
\* static_cast<int>(k * bucketSize) is computed exactly, as floor(k*(n-2)/d).

\* MAX_DISPLAY_POINTS, scaled down from 2000
MAX_DISPLAY_POINTS == 3

\* at most this many packets arrive between two render ticks
MaxPending == MAX_DISPLAY_POINTS \div 2

\* at most this many addData calls in a run
MaxSamples == MAX_DISPLAY_POINTS + 2

SampleValues == {0, 1}
ClockSteps   == {0, 1}
BufferLimits == {MAX_DISPLAY_POINTS, MaxSamples}
Modes        == {"LTTB", "MinMax"}

Abs(x) == IF x < 0 THEN -x ELSE x

RECURSIVE SumRange(_, _, _)
\* sum of s[i] for the 0-based indices from <= i < to
SumRange(s, from, to) ==
    IF from >= to THEN 0 ELSE s[from + 1] + SumRange(s, from + 1, to)

\* ---- double arithmetic of the bucket bounds: a positive double is
\* [sig |-> MantissaBits bits, most significant first, exp |-> e], its value
\* the number written by sig times 2^e

MantissaBits == 53

RECURSIVE BitLength(_)
\* the number of binary digits of n; 0 for 0
BitLength(n) == IF n = 0 THEN 0 ELSE 1 + BitLength(n \div 2)

\* binary digits of n, most significant first; none for 0
BitsOf(n) ==
    [i \in 1..BitLength(n) |-> (n \div (2 ^ (BitLength(n) - i))) % 2]

RECURSIVE BitsValue(_, _)
\* the number written by the first i digits of bits
BitsValue(bits, i) ==
    IF i = 0 THEN 0 ELSE 2 * BitsValue(bits, i - 1) + bits[i]

\* bits plus one, one digit longer when every digit was 1
Increment(bits) ==
    LET zeros == {0} \cup {i \in 1..Len(bits) : bits[i] = 0}
        zero  == CHOOSE p \in zeros : \A q \in zeros : p >= q
    IN  IF zero = 0
        THEN <<1>> \o [i \in 1..Len(bits) |-> 0]
        ELSE [i \in 1..Len(bits) |->
                 IF i < zero THEN bits[i] ELSE IF i = zero THEN 1 ELSE 0]

\* kept digits after rounding, with the exponent of their last digit
Normalised(kept, exp) ==
    IF Len(kept) > MantissaBits
    THEN [sig |-> SubSeq(kept, 1, MantissaBits), exp |-> exp + 1]
    ELSE [sig |-> kept, exp |-> exp]

\* round to nearest, ties to even: full holds at least MantissaBits digits,
\* its last digit worth 2^exp; sticky says that the exact value has non-zero
\* digits behind full
RoundToDouble(full, sticky, exp) ==
    LET keep == SubSeq(full, 1, MantissaBits)
        drop == SubSeq(full, MantissaBits + 1, Len(full))
        rest == sticky \/ \E i \in 2..Len(drop) : drop[i] = 1
        up   == /\ drop # <<>>
                /\ drop[1] = 1
                /\ rest \/ keep[MantissaBits] = 1
    IN  Normalised(IF up THEN Increment(keep) ELSE keep, exp + Len(drop))

RECURSIVE ShiftedRemainder(_, _, _)
\* (r * 2^i) mod k, the remainder of the long division after i digits
ShiftedRemainder(r, k, i) ==
    IF i = 0 THEN r % k ELSE (2 * ShiftedRemainder(r, k, i - 1)) % k

\* the digits of m / k: the integer part, then n digits of the fraction
QuotientDigits(m, k, n) ==
    BitsOf(m \div k)
        \o [i \in 1..n |-> (2 * ShiftedRemainder(m, k, i - 1)) \div k]

\* static_cast<double>(m) / k for m >= k >= 1, from one digit more than the
\* mantissa holds and the remainder behind it
DivideTo(m, k, n) ==
    RoundToDouble(QuotientDigits(m, k, n), ShiftedRemainder(m, k, n) # 0, -n)

Divide(m, k) == DivideTo(m, k, MantissaBits + 1 - BitLength(m \div k))

RECURSIVE Carry(_, _, _)
\* the carry out of digit i of sig times b
Carry(sig, b, i) ==
    IF i > Len(sig) THEN 0 ELSE (sig[i] * b + Carry(sig, b, i + 1)) \div 2

\* the digits of b times the number written by sig
TimesDigits(sig, b) ==
    BitsOf(Carry(sig, b, 1))
        \o [i \in 1..Len(sig) |-> (sig[i] * b + Carry(sig, b, i + 1)) % 2]

\* b * x for an int b >= 1 and a double x
Times(b, x) == RoundToDouble(TimesDigits(x.sig, b), FALSE, x.exp)

\* static_cast<int>(x) for a positive double below 2^31
Truncate(x) ==
    IF -x.exp >= MantissaBits THEN 0
    ELSE BitsValue(x.sig, MantissaBits + x.exp)

RECURSIVE OddPart(_)
\* k without its factors 2; when it divides m the quotient m / k and its
\* products with small ints have few binary digits and nothing is rounded
OddPart(k) == IF k % 2 = 0 THEN OddPart(k \div 2) ELSE k

\* static_cast<int>(bucket * bucketSize) with
\* double bucketSize = static_cast<double>(span) / numBuckets
BucketEdge(bucket, span, numBuckets) ==
    IF span % OddPart(numBuckets) = 0
    THEN (bucket * span) \div numBuckets
    ELSE Truncate(Times(bucket, Divide(span, numBuckets)))

\* ---- Min-Max

\* appends the minimum first whatever its position
MinMaxBucketMinFirst(vs, startIdx, endIdx) ==
    IF startIdx >= endIdx THEN <<>>
    ELSE LET R      == startIdx..(endIdx - 1)
             minIdx == CHOOSE i \in R : /\ \A j \in R : vs[j + 1] >= vs[i + 1]
                                        /\ \A j \in R : j < i => vs[j + 1] > vs[i + 1]
             maxIdx == CHOOSE i \in R : /\ \A j \in R : vs[j + 1] <= vs[i + 1]
                                        /\ \A j \in R : j < i => vs[j + 1] < vs[i + 1]
         IN  IF minIdx # maxIdx THEN <<minIdx, maxIdx>> ELSE <<minIdx>>

\* indices appended for one bucket [startIdx, endIdx), in time order
MinMaxBucket(vs, startIdx, endIdx) ==
    IF startIdx >= endIdx THEN <<>>
    ELSE LET R      == startIdx..(endIdx - 1)
             minIdx == CHOOSE i \in R : /\ \A j \in R : vs[j + 1] >= vs[i + 1]
                                        /\ \A j \in R : j < i => vs[j + 1] > vs[i + 1]
             maxIdx == CHOOSE i \in R : /\ \A j \in R : vs[j + 1] <= vs[i + 1]
                                        /\ \A j \in R : j < i => vs[j + 1] < vs[i + 1]
         IN  IF minIdx <= maxIdx
             THEN IF minIdx # maxIdx THEN <<minIdx, maxIdx>> ELSE <<minIdx>>
             ELSE <<maxIdx, minIdx>>

RECURSIVE MinMaxBuckets(_, _, _)
MinMaxBuckets(vs, numBuckets, bucket) ==
    IF bucket >= numBuckets THEN <<>>
    ELSE LET dataSize == Len(vs)
             startIdx == 1 + BucketEdge(bucket, dataSize - 2, numBuckets)
             endIdx   == Min(1 + BucketEdge(bucket + 1, dataSize - 2, numBuckets),
                             dataSize - 1)
         IN  MinMaxBucket(vs, startIdx, endIdx)
                \o MinMaxBuckets(vs, numBuckets, bucket + 1)

\* Min-Max with one bucket for every point of the budget
MinMaxIndicesFullBudget(vs) ==
    <<0>> \o MinMaxBuckets(vs, MAX_DISPLAY_POINTS, 0) \o <<Len(vs) - 1>>

\* 0-based source indices of the Min-Max output
MinMaxIndices(vs) ==
    <<0>> \o MinMaxBuckets(vs, MAX_DISPLAY_POINTS \div 2, 0) \o <<Len(vs) - 1>>

\* the Min-Max output for a display budget of maxDisplayPoints
MinMaxReduce(vs, maxDisplayPoints) ==
    <<0>> \o MinMaxBuckets(vs, maxDisplayPoints \div 2, 0) \o <<Len(vs) - 1>>

\* ---- LTTB

\* index in [bucketStart, bucketEnd) of the largest triangle with A = prev and
\* C = (sumX / cnt, sumY / cnt); areas are compared multiplied by cnt
LttbPick(ts, vs, bucketStart, bucketEnd, prev, sumX, sumY, cnt) ==
    LET ax == ts[prev + 1]
        ay == vs[prev + 1]
        area(i) == Abs((ax * cnt - sumX) * (vs[i + 1] - ay)
                       - (ax - ts[i + 1]) * (sumY - ay * cnt))
        R == bucketStart..(bucketEnd - 1)
    IN  IF R = {} THEN bucketStart
        ELSE CHOOSE i \in R : /\ \A j \in R : area(j) <= area(i)
                              /\ \A j \in R : j < i => area(j) < area(i)

RECURSIVE LttbBuckets(_, _, _, _)
LttbBuckets(ts, vs, bucket, prevSelectedIdx) ==
    IF bucket >= MAX_DISPLAY_POINTS - 2 THEN <<>>
    ELSE LET dataSize    == Len(ts)
             d           == MAX_DISPLAY_POINTS - 2
             bucketStart == BucketEdge(bucket, dataSize - 2, d) + 1
             bucketEnd   == Min(BucketEdge(bucket + 1, dataSize - 2, d) + 1,
                                dataSize - 1)
             nextStart   == bucketEnd
             nextEnd     == Min(BucketEdge(bucket + 2, dataSize - 2, d) + 1, dataSize)
             nextCount   == nextEnd - nextStart
             sumX        == IF nextCount > 0 THEN SumRange(ts, nextStart, nextEnd)
                            ELSE Last(ts)
             sumY        == IF nextCount > 0 THEN SumRange(vs, nextStart, nextEnd)
                            ELSE Last(vs)
             cnt         == IF nextCount > 0 THEN nextCount ELSE 1
             maxAreaIdx  == LttbPick(ts, vs, bucketStart, bucketEnd,
                                     prevSelectedIdx, sumX, sumY, cnt)
         IN  <<maxAreaIdx>> \o LttbBuckets(ts, vs, bucket + 1, maxAreaIdx)

\* 0-based source indices of the LTTB output
LttbIndices(ts, vs) ==
    <<0>> \o LttbBuckets(ts, vs, 0, 0) \o <<Len(ts) - 1>>

\* ---- render tick

\* what setData() receives for one channel
Downsample(data, mode) ==
    LET n   == Len(data.t)
        idx == IF n > MAX_DISPLAY_POINTS
               THEN IF mode = "MinMax" THEN MinMaxIndices(data.v)
                    ELSE LttbIndices(data.t, data.v)
               ELSE [i \in 1..n |-> i - 1]
    IN  [ t   |-> [k \in 1..Len(idx) |-> data.t[idx[k] + 1]],
          v   |-> [k \in 1..Len(idx) |-> data.v[idx[k] + 1]],
          idx |-> idx,
          src |-> data,
          mode |-> mode ]

RECURSIVE DrainPending(_, _)
\* for (pd : m_pendingData) for (i < pd.values.size()) m_channelData[i].append
DrainPending(chans, pending) ==
    IF pending = <<>> THEN chans
    ELSE LET pd   == Head(pending)
             idxs == 0..(Len(pd.values) - 1)
             next == [i \in (DOMAIN chans) \cup idxs |->
                        LET old == IF i \in DOMAIN chans THEN chans[i]
                                   ELSE [t |-> <<>>, v |-> <<>>]
                        IN  IF i \in idxs
                            THEN [t |-> Append(old.t, pd.timestamp),
                                  v |-> Append(old.v, pd.values[i + 1])]
                            ELSE old]
         IN  DrainPending(next, Tail(pending))

\* keep only the last `limit` entries
TrimSeries(data, limit) ==
    LET n == Len(data.t)
    IN  IF n > limit
        THEN [t |-> SubSeq(data.t, n - limit + 1, n),
              v |-> SubSeq(data.v, n - limit + 1, n)]
        ELSE data

InitPlot ==
    /\ m_channelData = <<>>
    /\ m_pendingData = <<>>
    /\ m_maxDataPoints = MAX_DISPLAY_POINTS
    /\ m_downsampleMode = "LTTB"
    /\ m_startTime = 0
    /\ m_needsReplot = FALSE
    /\ m_paused = FALSE
    /\ graph = <<>>
    /\ wallClock = 1
    /\ sampleCount = 0

\* PlotterWidget::addData, one packet with one channel value; wallClock is the
\* timestamp of the latest packet that was not dropped
AddData ==
    /\ sampleCount < MaxSamples
    /\ Len(m_pendingData) < MaxPending
    /\ \E value \in SampleValues, step \in ClockSteps, valid \in BOOLEAN :
        LET timestamp == wallClock + step
            start     == IF m_startTime = 0 THEN timestamp ELSE m_startTime
        IN  IF m_paused \/ ~valid
            THEN UNCHANGED <<m_startTime, m_pendingData, m_needsReplot,
                             wallClock, sampleCount>>
            ELSE /\ m_startTime' = start
                 /\ m_pendingData' = Append(m_pendingData,
                         [timestamp |-> timestamp - start, values |-> <<value>>])
                 /\ m_needsReplot' = TRUE
                 /\ wallClock' = timestamp
                 /\ sampleCount' = sampleCount + 1
    /\ UNCHANGED <<m_channelData, m_maxDataPoints, m_downsampleMode, m_paused, graph>>
    /\ UNCHANGED <<bufVars, parserVars, testVars, lockVars, loopVars>>

\* PlotterWidget::onUpdateTimer
OnUpdateTimer ==
    LET drain   == m_pendingData # <<>> /\ ~m_paused
        drained == DrainPending(m_channelData, m_pendingData)
        chans   == IF drain
                   THEN [i \in DOMAIN drained |-> TrimSeries(drained[i], m_maxDataPoints)]
                   ELSE m_channelData
    IN  /\ m_channelData' = chans
        /\ m_pendingData' = IF drain THEN <<>> ELSE m_pendingData
        /\ IF ~m_needsReplot \/ m_paused
           THEN UNCHANGED <<graph, m_needsReplot>>
           ELSE /\ graph' = [i \in DOMAIN chans |-> Downsample(chans[i], m_downsampleMode)]
                /\ m_needsReplot' = FALSE
        /\ UNCHANGED <<m_maxDataPoints, m_downsampleMode, m_startTime, m_paused,
                       wallClock, sampleCount>>
        /\ UNCHANGED <<bufVars, parserVars, testVars, lockVars, loopVars>>

\* PlotterWidget::onBufferLimitChanged
OnBufferLimitChanged ==
    /\ \E value \in BufferLimits :
        /\ m_maxDataPoints' = value
        /\ m_channelData' = [i \in DOMAIN m_channelData |->
                                TrimSeries(m_channelData[i], value)]
    /\ m_needsReplot' = TRUE
    /\ UNCHANGED <<m_pendingData, m_downsampleMode, m_startTime, m_paused, graph,
                   wallClock, sampleCount>>
    /\ UNCHANGED <<bufVars, parserVars, testVars, lockVars, loopVars>>

\* PlotterWidget::onDownsampleModeChanged
OnDownsampleModeChanged ==
    /\ \E mode \in Modes : m_downsampleMode' = mode
    /\ m_needsReplot' = TRUE
    /\ UNCHANGED <<m_channelData, m_pendingData, m_maxDataPoints, m_startTime,
                   m_paused, graph, wallClock, sampleCount>>
    /\ UNCHANGED <<bufVars, parserVars, testVars, lockVars, loopVars>>

\* PlotterWidget::setPaused
SetPaused ==
    /\ \E paused \in BOOLEAN : m_paused' = paused
    /\ UNCHANGED <<m_channelData, m_pendingData, m_maxDataPoints, m_downsampleMode,
                   m_startTime, m_needsReplot, graph, wallClock, sampleCount>>
    /\ UNCHANGED <<bufVars, parserVars, testVars, lockVars, loopVars>>

NextPlot ==
    AddData \/ OnUpdateTimer \/ OnBufferLimitChanged \/ OnDownsampleModeChanged \/ SetPaused

\* ---- a flat series with one spike, rendered by Min-Max with a display
\* budget of SpikeBudget points

SpikeBudget  == 22
MaxSeriesLen == 32

SpikeValues == {-1, 1}

\* the lengths of the series, all above the budget
SeriesLens == {n \in (MaxSeriesLen - 3)..MaxSeriesLen : n > SpikeBudget}

\* n points, one a time unit after the other, all 0 but the one at index at
SpikeSeries(n, at, value) ==
    [t |-> [i \in 1..n |-> i - 1],
     v |-> [i \in 1..n |-> IF i = at + 1 THEN value ELSE 0]]

\* the series has arrived and was drained into channel 0: addData for each
\* of its points and the first half of onUpdateTimer, in Min-Max mode with
\* a buffer limit that keeps all of it
StoreSpike ==
    /\ m_channelData = <<>>
    /\ \E n \in SeriesLens, at \in 0..(MaxSeriesLen - 1),
          value \in SpikeValues :
          /\ at < n
          /\ m_channelData' = [c \in {0} |-> SpikeSeries(n, at, value)]
    /\ m_maxDataPoints' = MaxSeriesLen
    /\ m_downsampleMode' = "MinMax"
    /\ m_startTime' = wallClock
    /\ m_needsReplot' = TRUE
    /\ UNCHANGED <<m_pendingData, m_paused, graph, wallClock, sampleCount>>
    /\ UNCHANGED <<bufVars, parserVars, testVars, lockVars, loopVars>>

\* what setData() receives from the Min-Max branch
SpikeReduced(data) ==
    LET idx == MinMaxReduce(data.v, SpikeBudget)
    IN  [ t   |-> [k \in 1..Len(idx) |-> data.t[idx[k] + 1]],
          v   |-> [k \in 1..Len(idx) |-> data.v[idx[k] + 1]],
          idx |-> idx,
          src |-> data,
          mode |-> "MinMax" ]

\* the second half of onUpdateTimer: the series is longer than the budget
RenderSpike ==
    /\ m_needsReplot
    /\ m_downsampleMode = "MinMax"
    /\ graph' = [c \in DOMAIN m_channelData |-> SpikeReduced(m_channelData[c])]
    /\ m_needsReplot' = FALSE
    /\ UNCHANGED <<m_channelData, m_pendingData, m_maxDataPoints,
                   m_downsampleMode, m_startTime, m_paused, wallClock,
                   sampleCount>>
    /\ UNCHANGED <<bufVars, parserVars, testVars, lockVars, loopVars>>

NextSpike == StoreSpike \/ RenderSpike

\* =========================================================================
\* Text (QByteArray / QString / QStringView over ASCII)
\* =========================================================================

LF == "\n"
CR == "\r"

Digits == <<"0", "1", "2", "3", "4", "5", "6", "7", "8", "9">>
UpperCase == <<"A", "B", "C", "D", "E", "F", "G", "H", "I", "J", "K", "L", "M",
               "N", "O", "P", "Q", "R", "S", "T", "U", "V", "W", "X", "Y", "Z">>
LowerCase == <<"a", "b", "c", "d", "e", "f", "g", "h", "i", "j", "k", "l", "m",
               "n", "o", "p", "q", "r", "s", "t", "u", "v", "w", "x", "y", "z">>

\* QChar::isDigit
IsDigit(c) == Contains(Digits, c)

\* QChar::isSpace
IsSpace(c) == c \in {" ", "\t", LF, CR}

DigitValue(c) == IndexOf(Digits, c)

\* QChar::toLower / case folding
ToLower(c) == IF Contains(UpperCase, c) THEN LowerCase[IndexOf(UpperCase, c) + 1] ELSE c

\* QString::compare(a, b, Qt::CaseInsensitive) == 0
EqualsIgnoreCase(a, b) ==
    /\ Len(a) = Len(b)
    /\ \A i \in 1..Len(a) : ToLower(a[i]) = ToLower(b[i])

\* left(n), mid(pos), mid(pos, n): 0-based positions
Left(s, n)        == SubSeq(s, 1, Min(n, Len(s)))
Mid(s, pos)       == SubSeq(s, pos + 1, Len(s))
MidLen(s, pos, n) == SubSeq(s, pos + 1, Min(pos + n, Len(s)))

\* the least element of a set of integers, or `none` for the empty set
LeastOr(S, none) == IF S = {} THEN none ELSE CHOOSE p \in S : \A q \in S : p <= q

\* the greatest element of a non-empty set of integers
Greatest(S) == CHOOSE p \in S : \A q \in S : p >= q

\* indexOf(needle, from): 0-based position of the first occurrence, or -1
IndexOfFrom(s, needle, from) ==
    LeastOr({p \in from..(Len(s) - Len(needle)) :
                \A k \in 1..Len(needle) : s[p + k] = needle[k]}, -1)

\* the text between the first and the last of the positions `keep`
Between(s, keep) ==
    IF keep = {} THEN <<>> ELSE SubSeq(s, LeastOr(keep, 0), Greatest(keep))

\* QStringView::trimmed
Trimmed(s) == Between(s, {i \in 1..Len(s) : ~IsSpace(s[i])})

RECURSIVE DigitsValue(_)
\* decimal value of a run of digits
DigitsValue(s) ==
    IF s = <<>> THEN 0
    ELSE 10 * DigitsValue(SubSeq(s, 1, Len(s) - 1)) + DigitValue(Last(s))

\* length of the run of digits starting at 1-based position i
DigitRun(s, i) == LeastOr({j \in i..Len(s) : ~IsDigit(s[j])}, Len(s) + 1) - i

NoValue == [ok |-> FALSE, value |-> 0]

\* a double is held as an integer count of 10^-FracDigits units, which is
\* exact for numbers written with at most FracDigits fraction digits
FracDigits == 2

Scale == 10 ^ FracDigits

\* the length of the fraction that follows a digit run ending before position
\* i: -1 when s has no '.' at i, else the number of digits after the '.'
FracRun(s, i) ==
    IF i <= Len(s) /\ s[i] = "." THEN DigitRun(s, i + 1) ELSE -1

\* the characters a number with `run` integer digits and fraction `frac` takes
NumberLen(run, frac) == IF frac < 0 THEN run ELSE run + 1 + frac

\* the fraction digits of s from position `from`, in units of 10^-FracDigits
FracValue(s, from, frac) ==
    IF frac <= 0 THEN 0
    ELSE DigitsValue(SubSeq(s, from, from + Min(frac, FracDigits) - 1))
            * 10 ^ (FracDigits - Min(frac, FracDigits))

\* the magnitude written by `run` integer digits at `from` and `frac`
\* fraction digits behind the '.'
Magnitude(s, from, run, frac) ==
    Scale * DigitsValue(SubSeq(s, from, from + run - 1))
        + FracValue(s, from + run + 1, frac)

\* the number written at position `from`: digits, optionally a '.' and more
\* digits; at least one digit in all
NumberAt(s, from, run, frac, negative) ==
    IF run + Max(frac, 0) = 0 THEN NoValue
    ELSE [ok |-> TRUE,
          value |-> IF negative THEN -Magnitude(s, from, run, frac)
                    ELSE Magnitude(s, from, run, frac)]

\* std::from_chars(first, last, double): converts the longest numeric prefix
\* (optional '-', digits, optional '.' and digits); text after the prefix is
\* left unread and is no error.  The alphabet holds no 'e', "inf" or "nan".
FromChars(s) ==
    IF Len(s) > 0 /\ s[1] = "-"
    THEN NumberAt(s, 2, DigitRun(s, 2), FracRun(s, 2 + DigitRun(s, 2)), TRUE)
    ELSE NumberAt(s, 1, DigitRun(s, 1), FracRun(s, 1 + DigitRun(s, 1)), FALSE)

\* the number written by the whole of s from position `from`, if that is a
\* number
WholeNumberAt(s, from, negative) ==
    IF from + NumberLen(DigitRun(s, from), FracRun(s, from + DigitRun(s, from))) - 1
           # Len(s)
    THEN NoValue
    ELSE NumberAt(s, from, DigitRun(s, from),
                  FracRun(s, from + DigitRun(s, from)), negative)

\* QStringView::toDouble(&ok): the whole text must be a number; a leading '+'
\* or '-' is accepted
ToDouble(s) ==
    IF Len(s) > 0 /\ s[1] \in {"-", "+"}
    THEN WholeNumberAt(s, 2, s[1] = "-")
    ELSE WholeNumberAt(s, 1, FALSE)

\* =========================================================================
\* LineParser: field parsing
\* =========================================================================

\* QString("Ch%1").arg(i)
AutoNames == <<"Ch0", "Ch1", "Ch2", "Ch3", "Ch4", "Ch5", "Ch6", "Ch7">>

\* the label cut off before the separator instead of behind it
NumberPartFromSeparator(token, config, sepPos) ==
    IF config.stripLabels /\ sepPos >= 0 /\ sepPos < Len(token) - 1
    THEN Mid(token, sepPos)
    ELSE token

\* the text after the label separator when labels are stripped and the
\* separator at sepPos is not the last character; else the whole token
NumberPart(token, config, sepPos) ==
    IF config.stripLabels /\ sepPos >= 0 /\ sepPos < Len(token) - 1
    THEN Mid(token, sepPos + 1)
    ELSE token

\* std::from_chars first, QStringView::toDouble when it fails
ParseNumber(text) ==
    IF text = <<>> THEN NoValue
    ELSE IF FromChars(text).ok THEN FromChars(text)
    ELSE ToDouble(text)

\* LineParser::extractNumber
ExtractNumber(token, config) ==
    IF token = <<>> THEN NoValue
    ELSE ParseNumber(Trimmed(NumberPart(token, config,
                         IndexOfFrom(token, <<config.labelSeparator>>, 0))))

RECURSIVE SplitFrom(_, _, _)
SplitFrom(line, delimiter, start) ==
    LET pos == IndexOfFrom(line, delimiter, start)
    IN  IF pos = -1 THEN <<Mid(line, start)>>
        ELSE <<MidLen(line, start, pos - start)>>
                \o SplitFrom(line, delimiter, pos + Len(delimiter))

\* splitLine that leaves out empty tokens
SplitLineSkipEmpty(line, delimiter) ==
    IF line = <<>> THEN <<>>
    ELSE IF delimiter = <<>> THEN <<line>>
    ELSE SelectSeq(SplitFrom(line, delimiter, 0), LAMBDA t : t # <<>>)

\* LineParser::splitLine
SplitLine(line, delimiter) ==
    IF line = <<>> THEN <<>>
    ELSE IF delimiter = <<>> THEN <<line>>
    ELSE SplitFrom(line, delimiter, 0)

\* the digits of the text without its minus signs
NumericPartDigitsOnly(s) == SelectSeq(s, LAMBDA c : IsDigit(c))

\* every digit and '-' of the text, in order
NumericPart(s) == SelectSeq(s, LAMBDA c : IsDigit(c) \/ c = "-")

\* the ID filter of processLine: exact match ignoring case, else equal numeric parts
SensorIdMatches(idStr, acceptSensorId) ==
    \/ EqualsIgnoreCase(idStr, acceptSensorId)
    \/ /\ NumericPart(idStr) # <<>>
       /\ NumericPart(acceptSensorId) # <<>>
       /\ NumericPart(idStr) = NumericPart(acceptSensorId)

\* the selection with the ID field left among the data fields
FieldsToExtractWithId(tokenCount, config) ==
    IF config.dataFields = <<>>
    THEN [i \in 1..tokenCount |-> i - 1]
    ELSE config.dataFields

\* QVector<int> fieldsToExtract
FieldsToExtract(tokenCount, config) ==
    IF config.dataFields = <<>>
    THEN SelectSeq([i \in 1..tokenCount |-> i - 1], LAMBDA i : i # config.idFieldIndex)
    ELSE config.dataFields

ChannelName(i, config) ==
    IF i < Len(config.channelNames) THEN config.channelNames[i + 1] ELSE AutoNames[i + 1]

\* GenericDataPacket::addChannel: channels[name] = value; values.append(value)
AddChannel(acc, name, value) ==
    [acc EXCEPT !.channels = [n \in (DOMAIN acc.channels) \cup {name} |->
                                 IF n = name THEN value ELSE acc.channels[n]],
                !.values = Append(acc.values, value)]

RECURSIVE ExtractFields(_, _, _, _, _)
\* the "Extract values" loop of processLine, from position i of `fields`
ExtractFields(tokens, fields, i, config, acc) ==
    IF i >= Len(fields) THEN acc
    ELSE LET fieldIdx == fields[i + 1]
         IN  IF fieldIdx < 0 \/ fieldIdx >= Len(tokens)
             THEN ExtractFields(tokens, fields, i + 1, config,
                      [acc EXCEPT !.hasError = TRUE,
                                  !.errorMessage = <<"Field index out of range", fieldIdx>>])
             ELSE LET raw   == tokens[fieldIdx + 1]
                      token == IF config.trimWhitespace THEN Trimmed(raw) ELSE raw
                      maybe == ExtractNumber(token, config)
                  IN  IF maybe.ok
                      THEN ExtractFields(tokens, fields, i + 1, config,
                               AddChannel(acc, ChannelName(i, config), maybe.value))
                      ELSE ExtractFields(tokens, fields, i + 1, config,
                               [acc EXCEPT !.hasError = TRUE,
                                           !.errorMessage = <<"Failed to parse field", fieldIdx>>])

\* the rate limiter of processLine: is dataParsed emitted at elapsed time t?
\* (now - last) >= 1000.0 / hz is decided as (now - last) * hz >= 1000
DisplayDue(rateLimitEnabled, hz, lastEmit, t) ==
    \/ ~rateLimitEnabled
    \/ hz <= 0
    \/ lastEmit = 0
    \/ (t - lastEmit) * hz >= 1000

\* m_lastEmitTimestamp after the rate limiter ran
NextLastEmit(rateLimitEnabled, hz, lastEmit, t) ==
    IF rateLimitEnabled /\ hz > 0 /\ DisplayDue(rateLimitEnabled, hz, lastEmit, t)
    THEN t ELSE lastEmit

NoPacket ==
    [packetIndex |-> -1, sensorId |-> <<>>, channels |-> <<>>, values |-> <<>>,
     isValid |-> FALSE, errorMessage |-> <<>>, rawData |-> <<>>]

\* the line has a token at the configured ID index
HasId(tokens, config) ==
    config.idFieldIndex >= 0 /\ config.idFieldIndex < Len(tokens)

\* packet.sensorId: the (trimmed) ID token, empty when the line has none
SensorIdOf(tokens, config) ==
    IF ~HasId(tokens, config) THEN <<>>
    ELSE IF config.trimWhitespace THEN Trimmed(tokens[config.idFieldIndex + 1])
    ELSE tokens[config.idFieldIndex + 1]

\* the line is discarded silently by the ID filter
Filtered(tokens, config) ==
    /\ HasId(tokens, config)
    /\ config.acceptSensorId # <<>>
    /\ ~SensorIdMatches(SensorIdOf(tokens, config), config.acceptSensorId)

\* the end of processLine with the error reported whenever a field failed
EmitPacketAndError(base, tokens, acc, lastEmit, env) ==
    [packet   |-> [base EXCEPT !.channels = acc.channels,
                               !.values = acc.values,
                               !.errorMessage = acc.errorMessage,
                               !.isValid = acc.values # <<>> /\ ~acc.hasError],
     signals  |-> <<"rawLineReady">>
                   \o (IF acc.values # <<>> THEN <<"dataForLogging">> ELSE <<>>)
                   \o (IF /\ acc.values # <<>>
                          /\ DisplayDue(env.rateLimitEnabled, env.hz, lastEmit, env.t)
                       THEN <<"dataParsed">> ELSE <<>>)
                   \o (IF acc.hasError THEN <<"parseError">> ELSE <<>>),
     tokens   |-> tokens, filtered |-> FALSE, hasError |-> acc.hasError,
     lastEmit |-> IF acc.values # <<>>
                  THEN NextLastEmit(env.rateLimitEnabled, env.hz, lastEmit, env.t)
                  ELSE lastEmit]

\* the end of processLine with a packet valid as soon as it has data
EmitPacketValidWithData(base, tokens, acc, lastEmit, env) ==
    [packet   |-> [base EXCEPT !.channels = acc.channels,
                               !.values = acc.values,
                               !.errorMessage = acc.errorMessage,
                               !.isValid = acc.values # <<>>],
     signals  |-> <<"rawLineReady">>
                   \o (IF acc.values # <<>> THEN <<"dataForLogging">> ELSE <<>>)
                   \o (IF /\ acc.values # <<>>
                          /\ DisplayDue(env.rateLimitEnabled, env.hz, lastEmit, env.t)
                       THEN <<"dataParsed">> ELSE <<>>)
                   \o (IF acc.values = <<>> /\ acc.hasError
                       THEN <<"parseError">> ELSE <<>>),
     tokens   |-> tokens, filtered |-> FALSE, hasError |-> acc.hasError,
     lastEmit |-> IF acc.values # <<>>
                  THEN NextLastEmit(env.rateLimitEnabled, env.hz, lastEmit, env.t)
                  ELSE lastEmit]

\* the end of processLine, from "packet.isValid = ..." on; acc holds the
\* channels extracted and the error flag
EmitPacket(base, tokens, acc, lastEmit, env) ==
    [packet   |-> [base EXCEPT !.channels = acc.channels,
                               !.values = acc.values,
                               !.errorMessage = acc.errorMessage,
                               !.isValid = acc.values # <<>> /\ ~acc.hasError],
     signals  |-> <<"rawLineReady">>
                   \o (IF acc.values # <<>> THEN <<"dataForLogging">> ELSE <<>>)
                   \o (IF /\ acc.values # <<>>
                          /\ DisplayDue(env.rateLimitEnabled, env.hz, lastEmit, env.t)
                       THEN <<"dataParsed">> ELSE <<>>)
                   \o (IF acc.values = <<>> /\ acc.hasError
                       THEN <<"parseError">> ELSE <<>>),
     tokens   |-> tokens, filtered |-> FALSE, hasError |-> acc.hasError,
     lastEmit |-> IF acc.values # <<>>
                  THEN NextLastEmit(env.rateLimitEnabled, env.hz, lastEmit, env.t)
                  ELSE lastEmit]

\* processLine with the raw line surfaced only once the line passed the filter
ProcessTokensRawAfterFilter(base, tokens, config, lastEmit, env) ==
    IF tokens = <<>>
    THEN [packet   |-> [base EXCEPT !.errorMessage = <<"No tokens found">>],
          signals  |-> <<"rawLineReady", "parseError">>,
          tokens   |-> tokens, filtered |-> FALSE, hasError |-> TRUE,
          lastEmit |-> lastEmit]
    ELSE IF Filtered(tokens, config)
    THEN [packet   |-> [base EXCEPT !.sensorId = SensorIdOf(tokens, config)],
          signals  |-> <<>>,
          tokens   |-> tokens, filtered |-> TRUE, hasError |-> FALSE,
          lastEmit |-> lastEmit]
    ELSE EmitPacket([base EXCEPT !.sensorId = SensorIdOf(tokens, config)],
                    tokens,
                    ExtractFields(tokens, FieldsToExtract(Len(tokens), config), 0,
                                  config,
                                  [channels |-> <<>>, values |-> <<>>,
                                   hasError |-> FALSE, errorMessage |-> <<>>]),
                    lastEmit, env)

\* processLine after splitLine; base is the packet with its index and raw data
ProcessTokens(base, tokens, config, lastEmit, env) ==
    IF tokens = <<>>
    THEN [packet   |-> [base EXCEPT !.errorMessage = <<"No tokens found">>],
          signals  |-> <<"rawLineReady", "parseError">>,
          tokens   |-> tokens, filtered |-> FALSE, hasError |-> TRUE,
          lastEmit |-> lastEmit]
    ELSE IF Filtered(tokens, config)
    THEN [packet   |-> [base EXCEPT !.sensorId = SensorIdOf(tokens, config)],
          signals  |-> <<"rawLineReady">>,
          tokens   |-> tokens, filtered |-> TRUE, hasError |-> FALSE,
          lastEmit |-> lastEmit]
    ELSE EmitPacket([base EXCEPT !.sensorId = SensorIdOf(tokens, config)],
                    tokens,
                    ExtractFields(tokens, FieldsToExtract(Len(tokens), config), 0,
                                  config,
                                  [channels |-> <<>>, values |-> <<>>,
                                   hasError |-> FALSE, errorMessage |-> <<>>]),
                    lastEmit, env)

\* LineParser::processLine.  env = [rateLimitEnabled, hz, t]; the result holds the
\* signals emitted in order, the packet as it stood at the end, and
\* m_lastEmitTimestamp after the call.
ProcessLine(line, config, counter, lastEmit, env) ==
    ProcessTokens([NoPacket EXCEPT !.packetIndex = counter, !.rawData = line],
                  SplitLine(line, config.delimiter), config, lastEmit, env)

\* =========================================================================
\* LineParser: framing, reset, rate settings
\* =========================================================================

\* ParserConfig::csvDefault()
CsvDefault ==
    [delimiter |-> <<",">>, idFieldIndex |-> -1, acceptSensorId |-> <<>>,
     dataFields |-> <<>>, channelNames |-> <<>>, stripLabels |-> FALSE,
     labelSeparator |-> ":", trimWhitespace |-> TRUE, skipEmptyLines |-> TRUE,
     lineEnding |-> <<LF>>, maxLineLength |-> 4096]

\* int m_targetDisplayRate = 60
DefaultDisplayRate == 60

\* bytes removed from the buffer for a line found at pos, assuming a one-byte
\* line ending
ConsumedLenOneByte(pos, lineEndLen) == pos + 1

\* m_buffer.remove(0, pos + lineEndLen)
ConsumedLen(pos, lineEndLen) == pos + lineEndLen

\* the overflow test with the limit off by one
BufferOverflowsLate(size, maxLineLength) == size > maxLineLength + 1

\* if (m_buffer.size() > m_config.maxLineLength)
BufferOverflows(size, maxLineLength) == size > maxLineLength

\* one entry of the log: a processLine call, or a framing error
LineEntry(line, r, start, term, env) ==
    [kind |-> "line", text |-> line, start |-> start, term |-> term,
     at |-> env.t, hz |-> env.hz, limited |-> env.rateLimitEnabled,
     packet |-> r.packet, signals |-> r.signals, tokens |-> r.tokens,
     filtered |-> r.filtered, hasError |-> r.hasError]

ErrorEntry(kind, data, start, term, env) ==
    [kind |-> kind, text |-> data, start |-> start, term |-> term,
     at |-> env.t, hz |-> env.hz, limited |-> env.rateLimitEnabled,
     packet |-> NoPacket, signals |-> <<"parseError">>, tokens |-> <<>>,
     filtered |-> FALSE, hasError |-> TRUE]

\* the buffer after remove(0, pos + lineEndLen)
Consume(st, pos, config) ==
    [st EXCEPT !.buf  = Mid(st.buf, Min(ConsumedLen(pos, Len(config.lineEnding)),
                                        Len(st.buf))),
               !.base = st.base + Min(ConsumedLen(pos, Len(config.lineEnding)),
                                      Len(st.buf))]

\* lineView: the line as text, trimmed when configured
LineView(lineBytes, config) ==
    IF config.trimWhitespace THEN Trimmed(lineBytes) ELSE lineBytes

\* both "continue" tests for empty lines
SkipLine(lineBytes, config) ==
    /\ config.skipEmptyLines
    /\ lineBytes = <<>> \/ LineView(lineBytes, config) = <<>>

\* the over-long line discarded together with everything buffered behind it
TooLongDropsAll(st, pos, config, env) ==
    [st EXCEPT !.buf  = <<>>,
               !.base = st.base + Len(st.buf),
               !.log  = Append(st.log, ErrorEntry("lineTooLong", Left(st.buf, pos),
                                                  st.base, st.base + pos, env))]

\* "Line too long, discarding"
TooLong(st, pos, config, env) ==
    [Consume(st, pos, config) EXCEPT
        !.log = Append(st.log, ErrorEntry("lineTooLong", Left(st.buf, pos),
                                          st.base, st.base + pos, env))]

\* the parser after processLine returned r for the line found at pos
Handled(st, pos, lineView, r, config, env) ==
    [Consume(st, pos, config) EXCEPT
        !.counter  = st.counter + 1,
        !.lastEmit = r.lastEmit,
        !.log      = Append(st.log, LineEntry(lineView, r, st.base,
                                              st.base + pos, env))]

\* processLine(lineView) for the line found at pos
HandLine(st, pos, lineView, config, env) ==
    Handled(st, pos, lineView,
            ProcessLine(lineView, config, st.counter, st.lastEmit, env),
            config, env)

RECURSIVE FrameLoop(_, _, _)
RECURSIVE FrameAt(_, _, _, _)
\* the while loop of LineParser::parse.  st = [buf, base, counter, lastEmit, log];
\* base is the offset in the byte stream of the first byte of buf.
FrameLoop(st, config, env) ==
    FrameAt(st, IndexOfFrom(st.buf, config.lineEnding, 0), config, env)

\* the body of the loop, the line ending found at pos
FramePass(st, pos, config, env) ==
    IF pos > config.maxLineLength
    THEN TooLong(st, pos, config, env)
    ELSE IF SkipLine(Left(st.buf, pos), config)
    THEN Consume(st, pos, config)
    ELSE HandLine(st, pos, LineView(Left(st.buf, pos), config), config, env)

\* the loop, indexOf having answered pos (-1: no line ending, the loop ends)
FrameAt(st, pos, config, env) ==
    IF pos = -1 THEN st
    ELSE FrameLoop(FramePass(st, pos, config, env), config, env)

InitParser ==
    /\ m_config = CsvDefault
    /\ m_buffer = <<>>
    /\ m_packetCounter = 0
    /\ m_lastEmitTimestamp = 0
    /\ m_targetDisplayRate = DefaultDisplayRate
    /\ m_rateLimitEnabled = TRUE
    /\ now = 0
    /\ log = <<>>
    /\ stream = <<>>
    /\ bufBase = 0
    /\ lastParse = [remainder |-> 0, overflow |-> FALSE, returned |-> FALSE,
                    dropped |-> 0]
    /\ fed = 0
    /\ calls = 0
    /\ ticks = 0

\* the parser at the end of parse: the overflow test on what the loop left,
\* and the ghosts
ParserAfter(st, over, data, env) ==
    /\ m_buffer' = IF over THEN <<>> ELSE st.buf
    /\ bufBase' = IF over THEN st.base + Len(st.buf) ELSE st.base
    /\ log' = IF over
              THEN Append(st.log, ErrorEntry("bufferOverflow", st.buf, st.base,
                                             -1, env))
              ELSE st.log
    /\ m_packetCounter' = st.counter
    /\ m_lastEmitTimestamp' = st.lastEmit
    /\ stream' = stream \o data
    /\ lastParse' = [remainder |-> Len(st.buf), overflow |-> over,
                     returned |-> TRUE, dropped |-> lastParse.dropped]
    /\ fed' = fed + Len(data)
    /\ calls' = calls + 1
    /\ UNCHANGED <<m_config, m_targetDisplayRate, m_rateLimitEnabled, now, ticks>>

\* parse with no slot connected to the parser's signals
FinishParse(st, over, data, env) ==
    /\ ParserAfter(st, over, data, env)
    /\ UNCHANGED <<bufVars, plotVars, testVars, lockVars, loopVars>>

\* parse once the loop has run
AfterLoop(st, data, env) ==
    FinishParse(st, BufferOverflows(Len(st.buf), m_config.maxLineLength), data, env)

\* parse with the rate settings and the clock reading env
ParseAt(data, env) ==
    AfterLoop(FrameLoop([buf |-> m_buffer \o data, base |-> bufBase,
                         counter |-> m_packetCounter,
                         lastEmit |-> m_lastEmitTimestamp, log |-> log],
                        m_config, env),
              data, env)

\* LineParser::parse
Parse(data) ==
    ParseAt(data, [rateLimitEnabled |-> m_rateLimitEnabled,
                   hz |-> m_targetDisplayRate, t |-> now])

\* a reset that leaves the packet counter alone
ResetKeepsCounter ==
    /\ m_buffer' = <<>>
    /\ m_packetCounter' = m_packetCounter
    /\ m_lastEmitTimestamp' = 0
    /\ log' = <<>>
    /\ stream' = <<>>
    /\ bufBase' = 0
    /\ lastParse' = [remainder |-> 0, overflow |-> FALSE, returned |-> FALSE,
                     dropped |-> Len(m_buffer)]

\* a reset that leaves the rate limiter's baseline as it was
ResetKeepsLastEmit ==
    /\ m_buffer' = <<>>
    /\ m_packetCounter' = 0
    /\ m_lastEmitTimestamp' = m_lastEmitTimestamp
    /\ log' = <<>>
    /\ stream' = <<>>
    /\ bufBase' = 0
    /\ lastParse' = [remainder |-> 0, overflow |-> FALSE, returned |-> FALSE,
                     dropped |-> Len(m_buffer)]

\* a reset that leaves the accumulation buffer as it was
ResetKeepsBuffer ==
    /\ m_buffer' = m_buffer
    /\ m_packetCounter' = 0
    /\ m_lastEmitTimestamp' = 0
    /\ log' = <<>>
    /\ stream' = <<>>
    /\ bufBase' = 0
    /\ lastParse' = [remainder |-> 0, overflow |-> FALSE, returned |-> FALSE,
                     dropped |-> Len(m_buffer)]

\* what LineParser::reset leaves behind
ResetState ==
    /\ m_buffer' = <<>>
    /\ m_packetCounter' = 0
    /\ m_lastEmitTimestamp' = 0
    /\ log' = <<>>
    /\ stream' = <<>>
    /\ bufBase' = 0
    /\ lastParse' = [remainder |-> 0, overflow |-> FALSE, returned |-> FALSE,
                     dropped |-> Len(m_buffer)]

\* LineParser::reset
Reset ==
    /\ ResetState
    /\ UNCHANGED <<m_config, m_targetDisplayRate, m_rateLimitEnabled, now,
                   fed, calls, ticks>>
    /\ UNCHANGED <<bufVars, plotVars, testVars, lockVars, loopVars>>

\* LineParser::setConfig
SetConfig(config) ==
    /\ m_config' = config
    /\ ResetState
    /\ UNCHANGED <<m_targetDisplayRate, m_rateLimitEnabled, now, fed, calls, ticks>>
    /\ UNCHANGED <<bufVars, plotVars, testVars, lockVars, loopVars>>

\* LineParser::setTargetDisplayRate
SetTargetDisplayRate(hz) ==
    /\ m_targetDisplayRate' = hz
    /\ UNCHANGED <<m_config, m_buffer, m_packetCounter, m_lastEmitTimestamp,
                   m_rateLimitEnabled, now, log, stream, bufBase, lastParse,
                   fed, calls, ticks>>
    /\ UNCHANGED <<bufVars, plotVars, testVars, lockVars, loopVars>>

\* LineParser::setRateLimitEnabled
SetRateLimitEnabled(enabled) ==
    /\ m_rateLimitEnabled' = enabled
    /\ UNCHANGED <<m_config, m_buffer, m_packetCounter, m_lastEmitTimestamp,
                   m_targetDisplayRate, now, log, stream, bufBase, lastParse,
                   fed, calls, ticks>>
    /\ UNCHANGED <<bufVars, plotVars, testVars, lockVars, loopVars>>

\* m_elapsedTimer advances by `step` milliseconds
Tick(step) ==
    /\ now' = now + step
    /\ ticks' = ticks + 1
    /\ UNCHANGED <<m_config, m_buffer, m_packetCounter, m_lastEmitTimestamp,
                   m_targetDisplayRate, m_rateLimitEnabled, log, stream, bufBase,
                   lastParse, fed, calls>>
    /\ UNCHANGED <<bufVars, plotVars, testVars, lockVars, loopVars>>

\* ---- the framing scenario: raw bytes in small chunks

MaxBytes      == 5
MaxChunk      == 3
FrameMaxLine  == 2

FrameBytes == {"1", CR, LF}

Chunks(n) == UNION {[1..k -> FrameBytes] : k \in 1..n}

FrameConfigs ==
    {[CsvDefault EXCEPT !.lineEnding = e, !.maxLineLength = FrameMaxLine,
                        !.trimWhitespace = tw, !.skipEmptyLines = se] :
        e \in {<<LF>>, <<CR, LF>>}, tw \in BOOLEAN, se \in BOOLEAN}

ParseBytes ==
    \E data \in Chunks(MaxChunk) :
        /\ fed + Len(data) <= MaxBytes
        /\ Parse(data)

SetFrameConfig == \E config \in FrameConfigs : SetConfig(config)

NextFrame == ParseBytes \/ SetFrameConfig \/ Reset

\* ---- parse, one pass of its while loop at a time, line endings of zero
\* and of one byte

MaxLoopBytes == 3
MaxPasses    == 5

LoopBytes == {"1", LF}

LoopChunks == UNION {[1..k -> LoopBytes] : k \in 1..MaxLoopBytes}

LoopConfigs ==
    {[CsvDefault EXCEPT !.lineEnding = e, !.maxLineLength = FrameMaxLine,
                        !.skipEmptyLines = se] :
        e \in {<<>>, <<LF>>}, se \in BOOLEAN}

NotParsing == [running |-> FALSE, passes |-> 0, entry |-> 0]

InitLoop == parsing = NotParsing

\* parse(data) up to the loop: m_buffer.append(data)
EnterParse ==
    \E data \in LoopChunks :
        /\ ~parsing.running
        /\ fed + Len(data) <= MaxLoopBytes
        /\ m_buffer' = m_buffer \o data
        /\ stream' = stream \o data
        /\ fed' = fed + Len(data)
        /\ calls' = calls + 1
        /\ lastParse' = [lastParse EXCEPT !.returned = FALSE]
        /\ parsing' = [running |-> TRUE, passes |-> 0,
                       entry |-> Len(m_buffer) + Len(data)]
        /\ UNCHANGED <<m_config, m_packetCounter, m_lastEmitTimestamp,
                       m_targetDisplayRate, m_rateLimitEnabled, now, log,
                       bufBase, ticks>>
        /\ UNCHANGED <<bufVars, plotVars, testVars, lockVars>>

\* the parser where the loop stands
LoopState ==
    [buf |-> m_buffer, base |-> bufBase, counter |-> m_packetCounter,
     lastEmit |-> m_lastEmitTimestamp, log |-> log]

\* the parser after a pass that left st
LoopBecomes(st) ==
    /\ m_buffer' = st.buf
    /\ bufBase' = st.base
    /\ m_packetCounter' = st.counter
    /\ m_lastEmitTimestamp' = st.lastEmit
    /\ log' = st.log

\* one pass of the while loop: indexOf found the line ending
LoopPass ==
    /\ parsing.running
    /\ parsing.passes < MaxPasses
    /\ IndexOfFrom(m_buffer, m_config.lineEnding, 0) # -1
    /\ LoopBecomes(FramePass(LoopState,
                             IndexOfFrom(m_buffer, m_config.lineEnding, 0),
                             m_config,
                             [rateLimitEnabled |-> m_rateLimitEnabled,
                              hz |-> m_targetDisplayRate, t |-> now]))
    /\ parsing' = [parsing EXCEPT !.passes = parsing.passes + 1]
    /\ UNCHANGED <<m_config, m_targetDisplayRate, m_rateLimitEnabled, now,
                   stream, lastParse, fed, calls, ticks>>
    /\ UNCHANGED <<bufVars, plotVars, testVars, lockVars>>

\* indexOf found no line ending: the overflow test, and parse returns
LeaveParse ==
    /\ parsing.running
    /\ IndexOfFrom(m_buffer, m_config.lineEnding, 0) = -1
    /\ LET over == BufferOverflows(Len(m_buffer), m_config.maxLineLength)
       IN  /\ m_buffer' = IF over THEN <<>> ELSE m_buffer
           /\ bufBase' = IF over THEN bufBase + Len(m_buffer) ELSE bufBase
           /\ log' = IF over
                     THEN Append(log, ErrorEntry("bufferOverflow", m_buffer, bufBase, -1,
                                                 [rateLimitEnabled |-> m_rateLimitEnabled,
                                                  hz |-> m_targetDisplayRate,
                                                  t |-> now]))
                     ELSE log
           /\ lastParse' = [remainder |-> Len(m_buffer), overflow |-> over,
                            returned |-> TRUE, dropped |-> lastParse.dropped]
    /\ parsing' = [parsing EXCEPT !.running = FALSE]
    /\ UNCHANGED <<m_config, m_packetCounter, m_lastEmitTimestamp,
                   m_targetDisplayRate, m_rateLimitEnabled, now, stream, fed,
                   calls, ticks>>
    /\ UNCHANGED <<bufVars, plotVars, testVars, lockVars>>

\* setConfig between two parse calls
SetLoopConfig ==
    /\ ~parsing.running
    /\ \E config \in LoopConfigs : SetConfig(config)

NextLoop == EnterParse \/ LoopPass \/ LeaveParse \/ SetLoopConfig

\* ---- the rate scenario: whole lines, a clock, and the rate settings

MaxLines == 3
MaxTicks == 2

Rates == {0, 1}

RateSteps == {500}

\* "1,1" is a valid packet, "1,a" has data and a failed field
RateLines == {<<"1", ",", "1">>, <<"1", ",", "a">>}

ParseLine ==
    \E line \in RateLines :
        /\ calls < MaxLines
        /\ Parse(line \o m_config.lineEnding)

ChangeRate == \E hz \in Rates : SetTargetDisplayRate(hz)

ToggleRateLimit == \E enabled \in BOOLEAN : SetRateLimitEnabled(enabled)

ClockTick ==
    \E step \in RateSteps :
        /\ ticks < MaxTicks
        /\ Tick(step)

\* the configuration is set again, as the parser settings dialog does
SetRateConfig == SetConfig(CsvDefault)

NextRate ==
    ParseLine \/ ChangeRate \/ ToggleRateLimit \/ ClockTick \/ Reset \/ SetRateConfig

\* ---- the fields scenario: one line under a configuration that selects and
\* names fields

MaxTokens == 3

\* a number, text that is no number, another number
FieldTokens == {<<"1">>, <<"a">>, <<"2">>}

RECURSIVE JoinTokens(_, _)
\* the tokens written as one line
JoinTokens(tokens, delimiter) ==
    IF Len(tokens) = 1 THEN tokens[1]
    ELSE tokens[1] \o delimiter \o JoinTokens(Tail(tokens), delimiter)

\* the sample line of the parser settings dialog's help text
ExampleLine ==
    <<"1", ",", "1", "0", ".", "5", ",", "2", "0", ".", "2", "5">>

\* lines of up to MaxTokens tokens, the sample line, and the empty line
FieldLines ==
    {JoinTokens(ts, <<",">>) :
        ts \in UNION {[1..k -> FieldTokens] : k \in 1..MaxTokens}}
        \cup {ExampleLine, <<>>}

\* (idFieldIndex, acceptSensorId): no ID field, or sensor "1" in field 0
IdSettings == {<<-1, <<>>>>, <<0, <<"1">>>>}

DataFieldLists == {<<>>, <<1>>, <<2, 1>>, <<1, MaxTokens>>}

ChannelNameLists == {<<>>, <<"X">>, <<"X", "Y">>, <<"X", "X">>}

\* empty lines are processed rather than skipped
FieldConfigs ==
    {[CsvDefault EXCEPT !.idFieldIndex = id[1], !.acceptSensorId = id[2],
                        !.dataFields = df, !.channelNames = cn,
                        !.skipEmptyLines = FALSE] :
        id \in IdSettings, df \in DataFieldLists, cn \in ChannelNameLists}

\* the first line the parser is given
ParseFieldLine ==
    \E line \in FieldLines :
        /\ calls = 0
        /\ Parse(line \o m_config.lineEnding)

SetFieldConfig == \E config \in FieldConfigs : SetConfig(config)

NextFields == ParseFieldLine \/ SetFieldConfig \/ Reset

\* ---- the split scenario: one line under delimiters of one and two characters

MaxSplitLen == 4

SplitChars == {"1", ",", ";"}

SplitLines == UNION {[1..k -> SplitChars] : k \in 0..MaxSplitLen}

Delimiters == {<<",">>, <<",", ",">>, <<";">>, <<",", ";">>}

\* empty lines are processed rather than skipped
SplitConfigs ==
    {[CsvDefault EXCEPT !.delimiter = d, !.skipEmptyLines = FALSE] :
        d \in Delimiters}

\* the first line the parser is given
ParseSplitLine ==
    \E line \in SplitLines :
        /\ calls = 0
        /\ Parse(line \o m_config.lineEnding)

SetSplitConfig == \E config \in SplitConfigs : SetConfig(config)

NextSplit == ParseSplitLine \/ SetSplitConfig \/ Reset

\* ---- the label scenario: one token that may carry a label

MaxTokenLen == 4

LabelChars == {"a", ":", "1", "-"}

LabelLines == UNION {[1..k -> LabelChars] : k \in 1..MaxTokenLen}

\* the default configuration with and without label stripping
\* (ParserConfig::labeledDefault strips at ':')
LabelConfigs == {[CsvDefault EXCEPT !.stripLabels = sl] : sl \in BOOLEAN}

\* the first line the parser is given
ParseLabelLine ==
    \E line \in LabelLines :
        /\ calls = 0
        /\ Parse(line \o m_config.lineEnding)

SetLabelConfig == \E config \in LabelConfigs : SetConfig(config)

NextLabel == ParseLabelLine \/ SetLabelConfig \/ Reset

\* ---- the test-parse scenario: the settings dialog tries a sample line

\* a default-constructed ParseResult
NoResult ==
    [success |-> FALSE, errorMessage |-> <<>>, failedFieldIndex |-> -1,
     values |-> <<>>, fieldTexts |-> <<>>, originalLine |-> <<>>]

\* the field at fieldIdx lies outside the tokens: the error is noted and the
\* loop continues
TestOutOfRange(res, fieldIdx, tokenCount) ==
    [res EXCEPT !.success = FALSE,
                !.errorMessage = <<"Field index out of range", fieldIdx, tokenCount>>,
                !.failedFieldIndex = fieldIdx]

\* the token at fieldIdx went through extractNumber with result maybe
TestNumber(res, fieldIdx, token, maybe) ==
    IF maybe.ok THEN [res EXCEPT !.values = Append(res.values, maybe.value)]
    ELSE [res EXCEPT !.success = FALSE,
                     !.errorMessage = <<"Failed to parse field", fieldIdx, token>>,
                     !.failedFieldIndex = fieldIdx]

\* the token as extractNumber gets it
TestToken(raw, config) == IF config.trimWhitespace THEN Trimmed(raw) ELSE raw

RECURSIVE TestFields(_, _, _, _, _)
\* the "Try to extract values" loop of testParse, from position i of `fields`
TestFields(tokens, fields, i, config, res) ==
    IF i >= Len(fields) THEN res
    ELSE IF fields[i + 1] < 0 \/ fields[i + 1] >= Len(tokens)
    THEN TestFields(tokens, fields, i + 1, config,
                    TestOutOfRange(res, fields[i + 1], Len(tokens)))
    ELSE TestFields(tokens, fields, i + 1, config,
                    TestNumber(res, fields[i + 1],
                               TestToken(tokens[fields[i + 1] + 1], config),
                               ExtractNumber(TestToken(tokens[fields[i + 1] + 1],
                                                       config),
                                             config)))

\* if (result.success && result.values.isEmpty())
TestFinish(res) ==
    IF res.success /\ res.values = <<>>
    THEN [res EXCEPT !.success = FALSE,
                     !.errorMessage = <<"No numeric values extracted">>]
    ELSE res

\* testParse after splitLine
TestTokens(res, tokens, config) ==
    IF tokens = <<>>
    THEN [res EXCEPT !.success = FALSE, !.errorMessage = <<"No tokens found">>]
    ELSE TestFinish(TestFields(tokens, FieldsToExtract(Len(tokens), config), 0,
                               config,
                               [res EXCEPT !.fieldTexts = tokens,
                                           !.success = TRUE]))

\* testParse once the line is trimmed
TestLine(res, lineView, config) ==
    IF lineView = <<>>
    THEN [res EXCEPT !.success = FALSE, !.errorMessage = <<"Empty line">>]
    ELSE TestTokens(res, SplitLine(lineView, config.delimiter), config)

\* LineParser::testParse(sampleLine, config)
TestParse(sampleLine, config) ==
    TestLine([NoResult EXCEPT !.originalLine = sampleLine],
             IF config.trimWhitespace THEN Trimmed(sampleLine) ELSE sampleLine,
             config)

InitTest ==
    /\ testResult = NoResult
    /\ testConfig = CsvDefault

\* the dialog calls testParse with the sample line and the edited
\* configuration; the parser itself is not touched.  testParse is static and
\* its result depends on its arguments alone, so the first call is every call.
OnTestParse ==
    \E sampleLine \in FieldLines, config \in FieldConfigs :
        /\ testResult = NoResult
        /\ testResult' = TestParse(sampleLine, config)
        /\ testConfig' = config
        /\ UNCHANGED <<bufVars, plotVars, parserVars, lockVars, loopVars>>

NextTest == OnTestParse

\* ---- MainWindow: the parser's signals wired to the history store

\* the members of the DataBuffer as one record
StoreNow ==
    [packets |-> m_packets, names |-> m_channelNames,
     maxCount |-> m_maxChannelCount, signals |-> bufSignals,
     inserted |-> inserted, addCount |-> addCount]

\* DataBuffer::addPacket on the record
Stored(b, packet) ==
    [packets  |-> TrimFront(Append(b.packets, packet), m_maxSize),
     names    |-> TrackNames(b.names, SortedKeys(packet.channels)),
     maxCount |-> Max(b.maxCount, Len(packet.values)),
     signals  |-> <<[sig |-> "dataUpdated", name |-> ""]>>
                    \o ChannelAddedSignals(
                           TrackNames(b.names, SortedKeys(packet.channels)),
                           SortedKeys(packet.channels)),
     inserted |-> Append(b.inserted, packet.packetIndex),
     addCount |-> b.addCount + 1]

\* the history store is fed by the logging output instead
FeedsStoreLogging(e) == Contains(e.signals, "dataForLogging")

\* connect(ProtocolHandler::dataParsed, MainWindow::onDataParsed), and
\* onDataParsed calls m_dataBuffer->addPacket; onDataForLogging only records
FeedsStore(e) == Contains(e.signals, "dataParsed")

RECURSIVE StoreAll(_, _, _)
\* the slots run for the log entries from position k on, in emission order
StoreAll(b, entries, k) ==
    IF k > Len(entries) THEN b
    ELSE IF FeedsStore(entries[k])
    THEN StoreAll(Stored(b, entries[k].packet), entries, k + 1)
    ELSE StoreAll(b, entries, k + 1)

\* the DataBuffer becomes b
StoreBecomes(b) ==
    /\ m_packets' = b.packets
    /\ m_channelNames' = b.names
    /\ m_maxChannelCount' = b.maxCount
    /\ bufSignals' = b.signals
    /\ inserted' = b.inserted
    /\ addCount' = b.addCount
    /\ UNCHANGED m_maxSize

\* parse with MainWindow's slots connected: the packets emitted by this call
\* reach the store before parse returns (direct connections)
FinishWired(st, over, data, env) ==
    /\ ParserAfter(st, over, data, env)
    /\ StoreBecomes(StoreAll(StoreNow, st.log, Len(log) + 1))
    /\ UNCHANGED <<plotVars, testVars, lockVars, loopVars>>

\* the overflow test on what the loop left, then the end of parse
WiredAfterLoop(st, data, env) ==
    FinishWired(st, BufferOverflows(Len(st.buf), m_config.maxLineLength), data, env)

\* parse under MainWindow's connections, the rate settings and clock in env
OnRawBytesAt(data, env) ==
    WiredAfterLoop(FrameLoop([buf |-> m_buffer \o data, base |-> bufBase,
                              counter |-> m_packetCounter,
                              lastEmit |-> m_lastEmitTimestamp, log |-> log],
                             m_config, env),
                   data, env)

\* MainWindow::onRawBytesReceived -> ProtocolHandler::processRawData -> parse
OnRawBytesReceived(data) ==
    OnRawBytesAt(data, [rateLimitEnabled |-> m_rateLimitEnabled,
                        hz |-> m_targetDisplayRate, t |-> now])

\* the serial port delivers one whole line
ReceiveLine ==
    \E line \in RateLines :
        /\ calls < MaxLines
        /\ OnRawBytesReceived(line \o m_config.lineEnding)

NextWired == ReceiveLine \/ ToggleRateLimit \/ ClockTick

\* ---- the reset scenario: lines and the clock with rate limiting left
\* enabled, the parser reset or configured anew at any moment

\* a valid line, a line whose data field fails, a line of another sensor
ResetLines == {<<"1", ",", "1">>, <<"1", ",", "a">>, <<"2", ",", "1">>}

\* the default configuration, and one that accepts sensor "1" only
ResetConfigs ==
    {CsvDefault,
     [CsvDefault EXCEPT !.idFieldIndex = 0, !.acceptSensorId = <<"1">>]}

ParseResetLine ==
    \E line \in ResetLines :
        /\ calls < MaxLines
        /\ Parse(line \o m_config.lineEnding)

SetResetConfig == \E config \in ResetConfigs : SetConfig(config)

NextReset == ParseResetLine \/ ClockTick \/ Reset \/ SetResetConfig

\* ---- the filter scenario: lines that start with a sensor ID

MaxIdLen   == 3
MaxIdBytes == 6

IdChars == {"1", "-", "a", "A"}

IdStrings == UNION {[1..k -> IdChars] : k \in 1..MaxIdLen}

Filters == {<<>>, <<"1">>, <<"1", "1">>, <<"a">>, <<"-", "1">>, <<"a", "1">>}

FilterConfigs ==
    {[CsvDefault EXCEPT !.idFieldIndex = i, !.acceptSensorId = f] :
        i \in {0, 1}, f \in Filters}

\* the ID alone, or the ID followed by one data field
IdLines == IdStrings \cup {id \o <<",", "1">> : id \in IdStrings}

ParseIdLine ==
    \E line \in IdLines :
        /\ fed + Len(line) + Len(m_config.lineEnding) <= MaxIdBytes
        /\ Parse(line \o m_config.lineEnding)

SetFilterConfig == \E config \in FilterConfigs : SetConfig(config)

NextFilter == ParseIdLine \/ SetFilterConfig \/ Reset

\* =========================================================================
\* Specifications
\* =========================================================================

Init == InitBuffer /\ InitPlot /\ InitParser /\ InitTest /\ InitLock /\ InitLoop

\* one component runs, the others stay as constructed by MainWindow
SpecBuffer == Init /\ [][NextBuffer]_vars

SpecSpike == Init /\ [][NextSpike]_vars

SpecLoop == Init /\ [][NextLoop]_vars

SpecTrim == Init /\ [][NextTrim]_vars

SpecThreads == Init /\ [][NextThreads]_vars

SpecFrame == Init /\ [][NextFrame]_vars

SpecRate == Init /\ [][NextRate]_vars

SpecReset == Init /\ [][NextReset]_vars

SpecWired == Init /\ [][NextWired]_vars

SpecFields == Init /\ [][NextFields]_vars

SpecTest == Init /\ [][NextTest]_vars

SpecSplit == Init /\ [][NextSplit]_vars

SpecLabel == Init /\ [][NextLabel]_vars

SpecFilter == Init /\ [][NextFilter]_vars

SpecPlot == Init /\ [][NextPlot]_vars

\* ------------------------------------------------------------------ C1
\* C1: with capacity N >= 1 the store never holds more than N packets; after
\* M > N insertions with no clear or setMaxSize in between it holds exactly N,
\* the oldest survivor is the (M - N + 1)-th inserted, and the newest inserted
\* packet is always kept.
C1_Capacity ==
    m_maxSize >= 1 =>
        /\ Len(m_packets) <= m_maxSize
        /\ Len(inserted) >= 1 => Last(m_packets).packetIndex = Last(inserted)
        /\ Len(inserted) > m_maxSize =>
              /\ Len(m_packets) = m_maxSize
              /\ m_packets[1].packetIndex = inserted[Len(inserted) - m_maxSize + 1]

\* two packets were evicted from a store of capacity 2
C1_Witness ==
    /\ m_maxSize = 2
    /\ Len(inserted) = 4
    /\ Len(m_packets) = 2

\* ------------------------------------------------------------------ C4
\* C4 as stated: whenever a channel series longer than MAX_DISPLAY_POINTS was
\* rendered, the reduced series handed to the graph has at most
\* MAX_DISPLAY_POINTS points, in the LTTB branch and in the Min-Max branch.
C4_ReducedWithinBudget ==
    \A i \in DOMAIN graph :
        Len(graph[i].src.t) > MAX_DISPLAY_POINTS =>
            Len(graph[i].t) <= MAX_DISPLAY_POINTS

\* C4 amended: a rendered series longer than MAX_DISPLAY_POINTS is reduced by
\* LTTB to exactly MAX_DISPLAY_POINTS points, and by Min-Max to at most
\* 2 * (MAX_DISPLAY_POINTS / 2) + 2 points (the two end points and at most
\* two points for each of the MAX_DISPLAY_POINTS / 2 buckets), never more
\* points than the series had.
C4_ReducedWithinBucketBudget ==
    \A i \in DOMAIN graph :
        Len(graph[i].src.t) > MAX_DISPLAY_POINTS =>
            /\ Len(graph[i].v) = Len(graph[i].t)
            /\ graph[i].mode = "LTTB" => Len(graph[i].t) = MAX_DISPLAY_POINTS
            /\ graph[i].mode = "MinMax" =>
                  /\ Len(graph[i].t) <= 2 * (MAX_DISPLAY_POINTS \div 2) + 2
                  /\ Len(graph[i].t) <= Len(graph[i].src.t)

\* a Min-Max reduction that used the whole of its bucket budget, of a series
\* longer than that
C4_Witness ==
    \E i \in DOMAIN graph :
        /\ graph[i].mode = "MinMax"
        /\ Len(graph[i].t) = 2 * (MAX_DISPLAY_POINTS \div 2) + 2
        /\ Len(graph[i].src.t) > Len(graph[i].t)

\* ------------------------------------------------------------------ C5
NonDecreasing(s) == \A k \in 1..(Len(s) - 1) : s[k] <= s[k + 1]
Increasing(s)    == \A k \in 1..(Len(s) - 1) : s[k] < s[k + 1]

Emitted(e, signal) == Contains(e.signals, signal)

Lines == SelectSeq(log, LAMBDA e : e.kind = "line")

CountOf(s, P(_)) == Cardinality({k \in 1..Len(s) : P(s[k])})

\* C2: the number of packets forwarded on dataForLogging equals the number
\* of input lines that parsed to a valid packet (isValid), every valid packet
\* is forwarded and nothing but valid packets is forwarded, whatever the
\* rate-limiter setting.
C2_LoggingExactlyValid ==
    /\ CountOf(Lines, LAMBDA e : Emitted(e, "dataForLogging"))
          = CountOf(Lines, LAMBDA e : e.packet.isValid)
    /\ \A k \in 1..Len(Lines) :
          Emitted(Lines[k], "dataForLogging") <=> Lines[k].packet.isValid

\* ------------------------------------------------------------------ C3
MaxWindow == 2

DisplayTimes == [k \in 1..Len(SelectSeq(Lines, LAMBDA e : Emitted(e, "dataParsed")))
                    |-> SelectSeq(Lines, LAMBDA e : Emitted(e, "dataParsed"))[k].at]

Packets == SelectSeq(Lines, LAMBDA e : Emitted(e, "dataForLogging"))

\* every packet since the reset arrived under rate limiting at H Hz, less than
\* 1000/H ms after the one before it
BurstAt(H) ==
    /\ H > 0
    /\ \A k \in 1..Len(Packets) : Packets[k].limited /\ Packets[k].hz = H
    /\ \A k \in 1..(Len(Packets) - 1) :
          (Packets[k + 1].at - Packets[k].at) * H < 1000

\* C3: with rate limiting enabled at H Hz and packets arriving faster than
\* 1000/H ms apart, every window of T seconds holds at most H*T + 1 display
\* emissions, at whatever elapsed-clock readings the packets arrive.
C3_DisplayRateBound ==
    BurstAt(m_targetDisplayRate) =>
        \A T \in 1..MaxWindow :
            \A a \in {DisplayTimes[k] : k \in DOMAIN DisplayTimes} :
                Cardinality({k \in DOMAIN DisplayTimes :
                                a <= DisplayTimes[k] /\ DisplayTimes[k] <= a + 1000 * T})
                    <= m_targetDisplayRate * T + 1

\* ------------------------------------------------------------------ C6
\* C6: the lines handed to line processing since the last reset() or
\* setConfig() carry packetIndex 0, 1, 2, ... in order: the first one has 0
\* and each next one has 1 more; the counter is the number of such lines.
C6_PacketIndexSequence ==
    /\ \A k \in 1..Len(Lines) : Lines[k].packet.packetIndex = k - 1
    /\ m_packetCounter = Len(Lines)

\* two lines were framed after a reset that followed earlier input
C6_Witness ==
    /\ Len(Lines) = 2
    /\ fed > Len(stream)
    /\ Len(stream) > 0

\* ------------------------------------------------------------------ C7
\* the line has the configured ID field and that ID matches the filter
IdMatchesFilter(e) ==
    /\ m_config.idFieldIndex < Len(e.tokens)
    /\ SensorIdMatches(Trimmed(e.tokens[m_config.idFieldIndex + 1]),
                       m_config.acceptSensorId)

Silent(e) ==
    /\ ~Emitted(e, "dataForLogging")
    /\ ~Emitted(e, "dataParsed")
    /\ ~Emitted(e, "parseError")

\* C7: with an empty acceptSensorId no line is dropped by the filter; with a
\* non-empty acceptSensorId and an ID field configured, a line whose ID does
\* not match (a line too short to have the ID field included) produces no
\* packet on the logging output, none on the display output and no parse
\* error.
C7_FilterSilence ==
    \A k \in 1..Len(Lines) :
        /\ m_config.acceptSensorId = <<>> => ~Lines[k].filtered
        /\ (/\ m_config.acceptSensorId # <<>>
            /\ m_config.idFieldIndex >= 0
            /\ ~IdMatchesFilter(Lines[k])) => Silent(Lines[k])

\* ------------------------------------------------------------------ C8
IsNumericChar(c) == c = "-" \/ \E d \in 1..Len(Digits) : Digits[d] = c

Runs(s) ==
    {r \in (1..Len(s)) \X (1..Len(s)) :
        r[1] <= r[2] /\ \A k \in r[1]..r[2] : IsNumericChar(s[k])}

\* the longest stretch of adjacent digit/minus characters (the first of them
\* when several are longest), empty when there is none
LongestRun(s) ==
    IF Runs(s) = {} THEN <<>>
    ELSE LET r == CHOOSE r \in Runs(s) :
                    \A q \in Runs(s) :
                        \/ r[2] - r[1] > q[2] - q[1]
                        \/ r[2] - r[1] = q[2] - q[1] /\ r[1] <= q[1]
         IN  SubSeq(s, r[1], r[2])

RECURSIVE AllNumericChars(_)
\* every digit/minus character of the text, adjacent or not, in order
AllNumericChars(s) ==
    IF s = <<>> THEN <<>>
    ELSE (IF IsNumericChar(Head(s)) THEN <<Head(s)>> ELSE <<>>)
            \o AllNumericChars(Tail(s))

SameIgnoringCase(a, b) ==
    /\ Len(a) = Len(b)
    /\ \A i \in 1..Len(a) :
          \/ a[i] = b[i]
          \/ \E l \in 1..Len(LowerCase) :
                {a[i], b[i]} = {LowerCase[l], UpperCase[l]}

\* the lines whose ID was compared with a filter
Compared ==
    SelectSeq(Lines, LAMBDA e : /\ m_config.acceptSensorId # <<>>
                                /\ m_config.idFieldIndex >= 0
                                /\ m_config.idFieldIndex < Len(e.tokens))

\* C8 as stated: an ID passes the filter iff the two are equal ignoring case
\* or their longest contiguous runs of digit/minus characters are non-empty
\* and equal.
C8_LongestRunRule ==
    \A k \in 1..Len(Compared) :
        LET id == Compared[k].packet.sensorId
            f  == m_config.acceptSensorId
        IN  ~Compared[k].filtered <=>
                \/ SameIgnoringCase(id, f)
                \/ /\ LongestRun(id) # <<>>
                   /\ LongestRun(f) # <<>>
                   /\ LongestRun(id) = LongestRun(f)

\* C8 amended: an ID passes the filter iff the two are equal ignoring case or
\* the digit/minus characters of the ID, all of them in order, are the same
\* non-empty string as the digit/minus characters of the filter.
C8_AllNumericCharsRule ==
    \A k \in 1..Len(Compared) :
        LET id == Compared[k].packet.sensorId
            f  == m_config.acceptSensorId
        IN  ~Compared[k].filtered <=>
                \/ SameIgnoringCase(id, f)
                \/ /\ AllNumericChars(id) # <<>>
                   /\ AllNumericChars(f) # <<>>
                   /\ AllNumericChars(id) = AllNumericChars(f)

\* an ID whose digits are split by a letter passed a filter it does not
\* equal
C8_Witness ==
    \E k \in 1..Len(Compared) :
        /\ ~Compared[k].filtered
        /\ ~SameIgnoringCase(Compared[k].packet.sensorId, m_config.acceptSensorId)
        /\ LongestRun(Compared[k].packet.sensorId)
              # AllNumericChars(Compared[k].packet.sensorId)

\* ------------------------------------------------------------------ C9
\* C9: after parse() returns the buffer holds at most maxLineLength bytes and
\* no complete line ending; when the unterminated remainder was longer than
\* maxLineLength, a buffer-overflow error is the last thing reported and the
\* buffer is empty; otherwise the remainder is kept and no overflow is
\* reported.
C9_BoundedBuffer ==
    lastParse.returned =>
        /\ Len(m_buffer) <= m_config.maxLineLength
        /\ IndexOfFrom(m_buffer, m_config.lineEnding, 0) = -1
        /\ lastParse.remainder > m_config.maxLineLength =>
              /\ lastParse.overflow
              /\ log # <<>> /\ Last(log).kind = "bufferOverflow"
              /\ m_buffer = <<>>
        /\ lastParse.remainder <= m_config.maxLineLength =>
              /\ ~lastParse.overflow
              /\ Len(m_buffer) = lastParse.remainder

\* an unterminated remainder longer than maxLineLength was discarded
C9_Witness ==
    /\ lastParse.returned
    /\ lastParse.remainder > m_config.maxLineLength
    /\ m_buffer = <<>>

\* ------------------------------------------------------------------ C10
Framed == SelectSeq(log, LAMBDA e : e.term >= 0)

\* the text of entry e is the stream between its start and its terminator
TextFromStream(e) ==
    LET raw == SubSeq(stream, e.start + 1, e.term)
    IN  /\ e.start <= e.term
        /\ SubSeq(stream, e.term + 1, e.term + Len(m_config.lineEnding))
              = m_config.lineEnding
        /\ IndexOfFrom(raw, m_config.lineEnding, 0) = -1
        /\ e.kind = "line" =>
              e.text = IF m_config.trimWhitespace THEN Trimmed(raw) ELSE raw

\* C10: the lines handed on since the last reset are disjoint stretches of
\* the byte stream, each ended by its own line ending, taken in stream order:
\* no terminated line is handed on twice and the order is the order in which
\* the terminators arrived.
C10_FramingOrder ==
    /\ \A k \in 1..Len(Framed) : TextFromStream(Framed[k])
    /\ \A k \in 1..(Len(Framed) - 1) :
          Framed[k].term + Len(m_config.lineEnding) <= Framed[k + 1].start

\* two lines ended by a two-byte line ending were handed on
C10_Witness ==
    /\ Len(m_config.lineEnding) = 2
    /\ Len(Lines) = 2

\* where the framer stood after the k-th log entry: the start of the next
\* entry, or the offset of the buffer when the entry is the last one
ResumedAt(k) == IF k < Len(log) THEN log[k + 1].start ELSE bufBase

\* the bytes of the stream from offset a up to offset b
StreamBetween(a, b) == SubSeq(stream, a + 1, b)

C12_FirstDisplayAfterReset ==
    Packets # <<>> => Emitted(Packets[1], "dataParsed")

\* two lines were parsed with a reset between them, both with the clock at
\* 500 ms and so less than a period apart; the first one was displayed and set
\* the baseline, and the second one is displayed
C12_Witness ==
    /\ calls = 2
    /\ Len(log) = 1
    /\ Len(Packets) = 1
    /\ Packets[1].limited
    /\ Packets[1].hz > 0
    /\ Packets[1].at = 500
    /\ ticks = 1
    /\ m_lastEmitTimestamp = 500
    /\ Emitted(Packets[1], "dataParsed")

\* the packets of the log entries that satisfy P, in order
PacketsWhere(P(_)) ==
    [k \in 1..Len(SelectSeq(Lines, P)) |-> SelectSeq(Lines, P)[k].packet]

C14_RawLineOnce ==
    \A k \in 1..Len(Lines) :
        /\ Lines[k].signals # <<>>
        /\ Lines[k].signals[1] = "rawLineReady"
        /\ Cardinality({i \in 1..Len(Lines[k].signals) :
                            Lines[k].signals[i] = "rawLineReady"}) = 1
        /\ Lines[k].packet.rawData = Lines[k].text

\* the filter discarded one line and the rate limiter held back the packet
\* of another
C14_Witness ==
    /\ \E k \in 1..Len(Lines) : Lines[k].filtered
    /\ \E k \in 1..Len(Lines) :
          Emitted(Lines[k], "dataForLogging") /\ ~Emitted(Lines[k], "dataParsed")

\* the fields the configuration selects in the line of log entry e
Selected(e) == FieldsToExtract(Len(e.tokens), m_config)

\* the selected field f of entry e lies in the line and holds a number
FieldGood(e, f) ==
    /\ f >= 0
    /\ f < Len(e.tokens)
    /\ ExtractNumber(Trimmed(e.tokens[f + 1]), m_config).ok

\* the positions in the selection whose field is good
GoodPositions(e) ==
    {i \in 1..Len(Selected(e)) : FieldGood(e, Selected(e)[i])}

\* the parser emitted a packet for the line of entry e
PacketEmitted(e) == Emitted(e, "dataForLogging") \/ Emitted(e, "dataParsed")

\* C15: for every packet the parser emits, isValid is true if and only if at
\* least one channel value was extracted and no selected field failed
\* (neither out of range nor unparsable); the packet has data (hasData, the
\* condition of emission) iff values is non-empty, and values holds one
\* entry for each selected field that did not fail.
C15_PacketValidity ==
    \A k \in 1..Len(Lines) :
        /\ PacketEmitted(Lines[k]) <=>
              (~Lines[k].filtered /\ Lines[k].packet.values # <<>>)
        /\ PacketEmitted(Lines[k]) =>
              /\ Len(Lines[k].packet.values) = Cardinality(GoodPositions(Lines[k]))
              /\ Lines[k].packet.isValid <=>
                    /\ Lines[k].packet.values # <<>>
                    /\ GoodPositions(Lines[k]) = 1..Len(Selected(Lines[k]))

\* a packet with data was emitted although a selected field failed
C15_Witness ==
    \E k \in 1..Len(Lines) :
        /\ PacketEmitted(Lines[k])
        /\ ~Lines[k].packet.isValid
        /\ GoodPositions(Lines[k]) # {}

\* a selected field index of entry e lies outside the line's tokens
SomeFieldOutOfRange(e) ==
    \E i \in 1..Len(Selected(e)) :
        Selected(e)[i] < 0 \/ Selected(e)[i] >= Len(e.tokens)

\* C16: when a line has zero tokens, or a selected field index lies outside
\* the line's token bounds, a parse error is reported and no packet is
\* emitted for that line on any output.
C16_StructuralErrors ==
    \A k \in 1..Len(Lines) :
        (~Lines[k].filtered
            /\ (Lines[k].tokens = <<>> \/ SomeFieldOutOfRange(Lines[k])))
        => (Emitted(Lines[k], "parseError") /\ ~PacketEmitted(Lines[k]))

\* the three ways a line can end
EndsWithPacket(e) == PacketEmitted(e)

EndsWithError(e) == Emitted(e, "parseError")

EndsDiscarded(e) == e.filtered /\ e.signals = <<"rawLineReady">>

\* C17 as stated: every line handed to the field parser ends in exactly one
\* of three ways: a packet forwarded downstream (only if at least one value
\* was extracted), a reported parse error, or a silent discard by the
\* sensor-ID filter; a line that passes the filter never ends with neither a
\* packet nor an error, and never with both.
C17_ExactlyOneOutcome ==
    \A k \in 1..Len(Lines) :
        /\ EndsWithPacket(Lines[k]) => Lines[k].packet.values # <<>>
        /\ ~(EndsWithPacket(Lines[k]) /\ EndsWithError(Lines[k]))
        /\ EndsDiscarded(Lines[k]) =>
              ~EndsWithPacket(Lines[k]) /\ ~EndsWithError(Lines[k])
        /\ EndsWithPacket(Lines[k]) \/ EndsWithError(Lines[k])
              \/ EndsDiscarded(Lines[k])

\* C17 as the code has it: a line ends with a packet exactly when it passed
\* the filter and at least one value was extracted, with an error exactly when
\* it passed the filter, no value was extracted and something failed (no
\* tokens, or a selected field out of range or not a number), never with
\* both, and with neither when the filter discarded it or when it passed the
\* filter and selected no field at all.
C17_OutcomeByValuesAndErrors ==
    \A k \in 1..Len(Lines) :
        /\ EndsWithPacket(Lines[k]) <=>
              (~Lines[k].filtered /\ Lines[k].packet.values # <<>>)
        /\ EndsWithError(Lines[k]) <=>
              /\ ~Lines[k].filtered
              /\ Lines[k].packet.values = <<>>
              /\ \/ Lines[k].tokens = <<>>
                 \/ GoodPositions(Lines[k]) # 1..Len(Selected(Lines[k]))
        /\ ~(EndsWithPacket(Lines[k]) /\ EndsWithError(Lines[k]))
        /\ (~EndsWithPacket(Lines[k]) /\ ~EndsWithError(Lines[k])) <=>
              \/ EndsDiscarded(Lines[k])
              \/ /\ ~Lines[k].filtered
                 /\ Lines[k].tokens # <<>>
                 /\ Selected(Lines[k]) = <<>>

\* a line passed the filter and ended with neither a packet nor an error: it
\* held the sensor ID and nothing else
C17_Witness ==
    \E k \in 1..Len(Lines) :
        /\ ~Lines[k].filtered
        /\ Lines[k].tokens # <<>>
        /\ ~EndsWithPacket(Lines[k])
        /\ ~EndsWithError(Lines[k])

\* the positions in the selection whose field is good, ascending
GoodSeq(e) ==
    SelectSeq([i \in 1..Len(Selected(e)) |-> i], LAMBDA i : i \in GoodPositions(e))

\* the channel names of the values extracted from entry e, in parse order
ExtractedNames(e) ==
    [k \in 1..Len(GoodSeq(e)) |-> ChannelName(GoodSeq(e)[k] - 1, m_config)]

\* C18: in every packet the parser emits, channels holds exactly as many
\* entries as values, the channel names are pairwise distinct, and the k-th
\* entry of values is the value mapped by the k-th extracted channel name,
\* for every configuration of channelNames and dataFields.
C18_ChannelsParallelToValues ==
    \A k \in 1..Len(Lines) :
        PacketEmitted(Lines[k]) =>
            /\ Cardinality(DOMAIN Lines[k].packet.channels)
                  = Len(Lines[k].packet.values)
            /\ Len(ExtractedNames(Lines[k])) = Len(Lines[k].packet.values)
            /\ \A i, j \in 1..Len(ExtractedNames(Lines[k])) :
                  i # j => ExtractedNames(Lines[k])[i] # ExtractedNames(Lines[k])[j]
            /\ \A i \in 1..Len(Lines[k].packet.values) :
                  Lines[k].packet.channels[ExtractedNames(Lines[k])[i]]
                      = Lines[k].packet.values[i]

\* the field indices the configuration chooses in the line of entry e: the
\* dataFields list, or every token index but idFieldIndex, ascending
Chosen(e) ==
    IF m_config.dataFields # <<>> THEN m_config.dataFields
    ELSE SelectSeq([i \in 1..Len(e.tokens) |-> i - 1],
                   LAMBDA f : f # m_config.idFieldIndex)

\* the number in the i-th chosen field of entry e (i counts from 1)
ChosenNumber(e, i) ==
    IF Chosen(e)[i] < 0 \/ Chosen(e)[i] >= Len(e.tokens) THEN NoValue
    ELSE ExtractNumber(Trimmed(e.tokens[Chosen(e)[i] + 1]), m_config)

\* the chosen positions that yield a number, ascending
Yielding(e) ==
    SelectSeq([i \in 1..Len(Chosen(e)) |-> i], LAMBDA i : ChosenNumber(e, i).ok)

\* the name of the i-th chosen field (i counts from 1): channelNames[i-1] if
\* present, else "Ch<i-1>"
ChosenName(i) ==
    IF i <= Len(m_config.channelNames) THEN m_config.channelNames[i]
    ELSE AutoNames[i]

\* a number given in hundredths, in the units values are held in
Hundredths(n) == n * 10 ^ (FracDigits - 2)

\* the sample line parsed under idFieldIndex 0 and acceptSensorId "1"
ExampleParsed ==
    /\ m_config.idFieldIndex = 0
    /\ m_config.acceptSensorId = <<"1">>
    /\ m_config.dataFields = <<>>
    /\ m_config.channelNames = <<>>
    /\ Len(log) = 1
    /\ log[1].kind = "line"
    /\ log[1].text = ExampleLine

\* C19: with dataFields empty the parser extracts all token indices except
\* idFieldIndex in ascending order, otherwise exactly the dataFields list in
\* its order; the value of the i-th selected field is appended to values and
\* stored under channelNames[i] if present, else under "Ch<i>" (where two
\* fields get the same name the later one is the one the name maps to).
\* So line "1,10.5,20.25" with delimiter ",", idFieldIndex 0 and acceptSensorId
\* "1" yields one packet with sensorId "1" and channels {Ch0: 10.5, Ch1: 20.25}.
C19_FieldSelectionAndNaming ==
    /\ \A k \in 1..Len(Lines) :
          (~Lines[k].filtered /\ Lines[k].tokens # <<>>) =>
            /\ Lines[k].packet.values
                  = [j \in 1..Len(Yielding(Lines[k])) |->
                        ChosenNumber(Lines[k], Yielding(Lines[k])[j]).value]
            /\ DOMAIN Lines[k].packet.channels
                  = {ChosenName(Yielding(Lines[k])[j]) :
                        j \in 1..Len(Yielding(Lines[k]))}
            /\ \A j \in 1..Len(Yielding(Lines[k])) :
                  (\A l \in (j + 1)..Len(Yielding(Lines[k])) :
                      ChosenName(Yielding(Lines[k])[l])
                          # ChosenName(Yielding(Lines[k])[j]))
                  => Lines[k].packet.channels[ChosenName(Yielding(Lines[k])[j])]
                        = Lines[k].packet.values[j]
    /\ ExampleParsed =>
          /\ log[1].signals = <<"rawLineReady", "dataForLogging", "dataParsed">>
          /\ log[1].packet.sensorId = <<"1">>
          /\ log[1].packet.isValid
          /\ log[1].packet.values = <<Hundredths(1050), Hundredths(2025)>>
          /\ DOMAIN log[1].packet.channels = {"Ch0", "Ch1"}
          /\ log[1].packet.channels["Ch0"] = Hundredths(1050)
          /\ log[1].packet.channels["Ch1"] = Hundredths(2025)

\* the sample line was parsed under the sample configuration
C19_Witness == ExampleParsed

\* the field indices testConfig chooses among the tokens of the sample line
TestChosen ==
    IF testConfig.dataFields # <<>> THEN testConfig.dataFields
    ELSE SelectSeq([i \in 1..Len(testResult.fieldTexts) |-> i - 1],
                   LAMBDA f : f # testConfig.idFieldIndex)

\* the i-th chosen field (i counts from 1) is out of range or not numeric
TestFails(i) ==
    \/ TestChosen[i] < 0
    \/ TestChosen[i] >= Len(testResult.fieldTexts)
    \/ ~ExtractNumber(Trimmed(testResult.fieldTexts[TestChosen[i] + 1]),
                      testConfig).ok

\* the positions of the failing fields in selection order
TestFailing == {i \in 1..Len(TestChosen) : TestFails(i)}

\* C20: for a sample line in which one or more selected fields fail (out of
\* range or not numeric), testParse returns success == false and
\* failedFieldIndex equal to the index of the first failing field in selection
\* order; on success failedFieldIndex stays -1.
C20_FirstFailingField ==
    /\ (testResult.fieldTexts # <<>> /\ TestFailing # {}) =>
          /\ ~testResult.success
          /\ testResult.failedFieldIndex
                = TestChosen[CHOOSE i \in TestFailing :
                                \A j \in TestFailing : i <= j]
    /\ testResult.success => testResult.failedFieldIndex = -1

RECURSIVE Joined(_, _)
\* the tokens joined with the delimiter (QStringList::join)
Joined(tokens, delimiter) ==
    IF tokens = <<>> THEN <<>>
    ELSE IF Len(tokens) = 1 THEN tokens[1]
    ELSE tokens[1] \o delimiter \o Joined(Tail(tokens), delimiter)

\* the delimiter stands at 1-based position p of the line
DelimiterAt(line, delimiter, p) ==
    /\ p + Len(delimiter) - 1 <= Len(line)
    /\ SubSeq(line, p, p + Len(delimiter) - 1) = delimiter

RECURSIVE Occurrences(_, _, _)
\* the number of non-overlapping occurrences of the delimiter from position p
\* on, counted from the left
Occurrences(line, delimiter, p) ==
    IF p > Len(line) THEN 0
    ELSE IF DelimiterAt(line, delimiter, p)
    THEN 1 + Occurrences(line, delimiter, p + Len(delimiter))
    ELSE Occurrences(line, delimiter, p + 1)

\* C21: for every line and every non-empty delimiter, joining the tokens
\* returned by splitLine with the delimiter reproduces the (trimmed) line, and
\* a non-empty line has one token more than it has non-overlapping
\* occurrences of the delimiter.
C21_SplitJoinRoundTrip ==
    \A k \in 1..Len(Lines) :
        m_config.delimiter # <<>> =>
            /\ Joined(Lines[k].tokens, m_config.delimiter) = Lines[k].text
            /\ Lines[k].text # <<>> =>
                  Len(Lines[k].tokens)
                      = Occurrences(Lines[k].text, m_config.delimiter, 1) + 1

\* a line was split at a two-character delimiter that overlaps itself in the
\* line, and an empty token came out
C21_Witness ==
    /\ m_config.delimiter = <<",", ",">>
    /\ \E k \in 1..Len(Lines) :
          /\ Lines[k].text = <<"1", ",", ",", ",">>
          /\ Len(Lines[k].tokens) = 2

\* what extractNumber returned for the only token of the line of entry e
Outcome(e) ==
    IF e.packet.values # <<>>
    THEN [ok |-> TRUE, value |-> e.packet.values[1]]
    ELSE NoValue

\* the text is a numeric literal as a whole
IsNumericText(v) == ToDouble(Trimmed(v)).ok

\* the 1-based positions of the label separator in the token
SeparatorsIn(token) ==
    {p \in 1..Len(token) : token[p] = m_config.labelSeparator}

\* the token behind position p
Behind(token, p) == SubSeq(token, p + 1, Len(token))

\* lines of one token, as the label scenario feeds them
OneToken(e) == Len(e.tokens) = 1

WriteSection ==
    {"push", "trim", "names", "count", "unlock", "setmax", "trimmax",
     "clearPackets", "clearNames"}

\* the places where the writing thread emits a signal
Emitting == {"emit", "announce", "emitCleared"}

\* what a reader may never see: more packets than the capacity, or a stored
\* packet with a channel name or a channel count the store does not know
StoreConsistent ==
    /\ Len(m_packets) <= m_maxSize
    /\ \A k \in 1..Len(m_packets) :
          /\ \A n \in DOMAIN m_packets[k].channels : Contains(m_channelNames, n)
          /\ Len(m_packets[k].values) <= m_maxChannelCount

\* C23: with a writer running addPacket, clear or setMaxSize concurrently
\* with readers, no reader observes a state inside a write: while a read lock
\* is held the writer is outside its write section, size() is at most the
\* capacity and every stored packet's channel names and channel count are
\* reflected in channelNames() and maxChannelCount(); the write lock is held
\* exactly over the append-and-evict bookkeeping, and signals are emitted
\* after it is released.
C23_ReadersSeeNoWrite ==
    /\ m_lock.readers > 0 =>
          /\ ~m_lock.writer
          /\ writer.pc \notin WriteSection
          /\ StoreConsistent
    /\ m_lock.writer <=> writer.pc \in WriteSection
    /\ writer.pc \in Emitting => ~m_lock.writer

\* a reader holds its lock on a full store after the second addPacket left
\* its write section, while the writer is still emitting channelAdded
C23_Witness ==
    /\ m_lock.readers > 0
    /\ writer.pc = "announce"
    /\ Len(m_packets) = m_maxSize
    /\ m_maxSize > 0
    /\ addCount = 2

\* C24: reset() and setConfig() leave the accumulation buffer empty, and the
\* buffer is always the unconsumed tail of the bytes fed since the last
\* reset, every line handed on being a stretch of those bytes: bytes fed
\* before a reset that had not formed a complete line appear in no line
\* produced after it, whatever was processed before.
C24_ResetDiscardsPartialLine ==
    /\ [][calls' = calls => m_buffer' = <<>>]_vars
    /\ [](/\ bufBase <= Len(stream)
          /\ m_buffer = StreamBetween(bufBase, Len(stream))
          /\ \A k \in 1..Len(Framed) : TextFromStream(Framed[k]))

\* a reset dropped a buffered partial line, and a line was handed on after it
C24_Witness ==
    /\ lastParse.dropped > 0
    /\ lastParse.returned
    /\ Len(Lines) > 0
    /\ Lines[1].text # <<>>

\* the names announced by channelAdded in a signal sequence, in order
Announced(signals) ==
    LET added == SelectSeq(signals, LAMBDA g : g.sig = "channelAdded")
    IN  [i \in 1..Len(added) |-> added[i].name]

\* C25: addPacket emits channelAdded(name) if and only if name was not among
\* the known channel names before that addPacket: once for each newly
\* discovered name of the packet, never for a name already known.
C25_ChannelAddedForNewNames ==
    [][addCount' = addCount + 1 =>
         \A i \in 1..Len(ChannelOrder) :
             CountOf(Announced(bufSignals'), LAMBDA n : n = ChannelOrder[i])
                 = IF /\ Contains(m_channelNames', ChannelOrder[i])
                      /\ ~Contains(m_channelNames, ChannelOrder[i])
                   THEN 1 ELSE 0]_vars

\* s holds the value x
HoldsValue(s, x) == \E k \in 1..Len(s) : s[k] = x

Least(S) == CHOOSE p \in S : \A q \in S : p <= q

ValuesOf(s) == {s[k] : k \in 1..Len(s)}

\* C26: a series reduced by Min-Max keeps the minimum-value point and the
\* maximum-value point of every bucket of interior points, the buckets
\* covering all interior points, in original index order; hence the reduced
\* series holds the minimum and the maximum value of the whole input series.
C26_MinMaxKeepsExtremes ==
    \A i \in DOMAIN graph :
        (graph[i].mode = "MinMax" /\ Len(graph[i].src.v) > 0) =>
            /\ HoldsValue(graph[i].v, Least(ValuesOf(graph[i].src.v)))
            /\ HoldsValue(graph[i].v, Greatest(ValuesOf(graph[i].src.v)))
            /\ Increasing(graph[i].idx)

\* C27: every pass of the framing loop removes at least one byte from the
\* buffer, so the loop makes no more passes than the buffer held bytes when it
\* began and parse(chunk) returns, for every chunk and every configuration,
\* an empty lineEnding included.
C27_FramingTerminates ==
    parsing.passes + Len(m_buffer) <= parsing.entry

\* the parser had it been given the whole stream since the last reset in
\* one parse call
WholeRun ==
    FrameLoop([buf |-> stream, base |-> 0, counter |-> 0, lastEmit |-> 0,
               log |-> <<>>],
              m_config,
              [rateLimitEnabled |-> m_rateLimitEnabled,
               hz |-> m_targetDisplayRate, t |-> now])

\* no line of the stream is longer than maxLineLength: none of its
\* terminated lines, nor what follows the last line ending
NoLongLine ==
    /\ \A k \in 1..Len(WholeRun.log) : WholeRun.log[k].kind # "lineTooLong"
    /\ Len(WholeRun.buf) <= m_config.maxLineLength

\* C28: for a byte stream in which no line is longer than maxLineLength, the
\* lines processed and the errors reported are the same however the stream
\* was cut into chunks, a cut inside a CR LF line ending included: they are
\* those of the stream given in one piece.
C28_ChunkingInvariance ==
    NoLongLine => /\ log = WholeRun.log
                  /\ m_buffer = WholeRun.buf

\* the numeric payload of the only token of entry e: the token, or what is
\* behind its first label separator when labels are stripped
Payload(e) ==
    IF /\ m_config.stripLabels
       /\ SeparatorsIn(e.tokens[1]) # {}
       /\ LeastOr(SeparatorsIn(e.tokens[1]), 0) < Len(e.tokens[1])
    THEN Trimmed(Behind(e.tokens[1], LeastOr(SeparatorsIn(e.tokens[1]), 0)))
    ELSE Trimmed(e.tokens[1])

\* C29: extractNumber returns a value only when the entire trimmed payload is
\* a numeric literal; a payload made of a numeric prefix followed by other
\* characters is a parse failure: no value is extracted and the line ends
\* with an error instead of a valid packet.
C29_WholeTokenNumeric ==
    \A k \in 1..Len(Lines) :
        (OneToken(Lines[k]) /\ ~IsNumericText(Payload(Lines[k]))) =>
            /\ ~Outcome(Lines[k]).ok
            /\ Lines[k].hasError
            /\ ~Lines[k].packet.isValid

\* the places of the writing thread behind a finished trim loop
BehindTrim == {"names", "count", "unlock", "emit", "announce", "idle"}

\* C30: for every capacity given to setMaxSize, 0 and negative values
\* included, addPacket and setMaxSize never remove a packet from an empty
\* DataBuffer, and their trim loops stop with size() at most max(capacity, 0).
C30_NoEvictionFromEmpty ==
    /\ writer.pc \notin Undefined
    /\ writer.pc \in BehindTrim => Len(m_packets) <= Max(m_maxSize, 0)

====
